---- MODULE Spec2Model ----
(***************************************************************************)
(* Model of the footprints package: the Footprint resolution algorithm     *)
(* (src/src/footprints/__init__.py) and the Collector search               *)
(* (src/src/footprints/collectors.py).                                     *)
(*                                                                         *)
(* Values.  A python value of a description is None, an int or a str.  A   *)
(* str is a sequence of tokens: a token is either a literal word or one    *)
(* bracket placeholder "[key]" / "[key#fallback]" of the replattr regular  *)
(* expression.  Concatenation of strings is concatenation of sequences.    *)
(***************************************************************************)
EXTENDS Integers, Sequences, FiniteSets, TLC

\* ------------------------------------------------------------------ values

Lit(c) == [p |-> FALSE, x |-> c, fb |-> "", m |-> <<>>]
Ref(key) == [p |-> TRUE, x |-> key, fb |-> "", m |-> <<>>]
RefFb(key, f) == [p |-> TRUE, x |-> key, fb |-> f, m |-> <<>>]

\* '[key:name]' and '[key:name:name]' : m is the chain of names after the key
RefM(key, ms) == [p |-> TRUE, x |-> key, fb |-> "", m |-> ms]

None == [t |-> "none", s |-> <<>>, n |-> 0]
VStr(seq) == [t |-> "str", s |-> seq, n |-> 0]
VInt(i) == [t |-> "int", s |-> <<>>, n |-> i]
Word(c) == VStr(<<Lit(c)>>)

\* an object of the class Foo of tests/test_fp_core.py: Foo(value=n), and
\* Foo(anything), which has no attribute value (n = 0)
Foo(n) == [t |-> "foo", s |-> <<>>, n |-> n]

\* UNKNOWN = '__unknown__' : the sentinel is itself a str
UNKNOWN == Word("__unknown__")

\* largest int the int() conversion of the model knows (one-word numerals)
MaxInt == 3

\* the ceiling of _replacement: "if nbpass > 50"
MaxPass == 50

\* str(v)
PyStr(v) ==
    CASE v.t = "str" -> v.s
      [] v.t = "int" -> <<Lit(ToString(v.n))>>
      [] v.t = "foo" -> <<Lit("<Foo>")>>
      [] OTHER -> <<Lit("None")>>

IsNumeral(v) ==
    /\ v.t = "str"
    /\ Len(v.s) = 1
    /\ ~v.s[1].p
    /\ \E i \in 0..MaxInt : ToString(i) = v.s[1].x

\* ktype(value) for ktype in (str, int, Foo); None stands for a raised
\* ValueError or TypeError
Reclass(ktype, v) ==
    IF ktype = "foo" THEN Foo(0)
    ELSE IF ktype = "int"
    THEN IF v.t = "int" THEN v
         ELSE IF IsNumeral(v)
         THEN VInt(CHOOSE i \in 0..MaxInt : ToString(i) = v.s[1].x)
         ELSE None
    ELSE VStr(PyStr(v))

\* isinstance(value, ktype)
IsInstance(v, ktype) == v.t = ktype

\* replattr.search(guessk)
HasRepl(v) == v.t = "str" /\ \E i \in 1..Len(v.s) : v.s[i].p

FirstRepl(s) == CHOOSE i \in 1..Len(s) : s[i].p /\ \A j \in 1..(i - 1) : ~s[j].p

\* replattr.sub(repl, guessk, 1)
SubFirst(s, repl) ==
    LET i == FirstRepl(s)
    IN  SubSeq(s, 1, i - 1) \o repl \o SubSeq(s, i + 1, Len(s))

\* the element of a one-element set
Only(S) == CHOOSE x \in S : TRUE

\* -------------------------------------------------------------- footprints

AttrDef(opt, dflt, als, rmp, vals, outc, ktype) ==
    [optional |-> opt, default |-> dflt, alias |-> als, remap |-> rmp,
     values |-> vals, outcast |-> outc, type |-> ktype]

\* setup.fastkeys = ('kind',)
FastKeys == {"kind"}

\* setup.extended
Extended == TRUE

\* the attribute names of the footprint "wide", one more than the ceiling of
\* _replacement allows passes: "w101", "w102", ...
WideNames == [i \in 1..(MaxPass + 1) |-> "w" \o ToString(100 + i)]

\* alphabetical order of the attribute names (python str comparison)
NameOrder == <<"kind", "someint", "stuff1", "stuff2", "stuff3">> \o WideNames

NameRank(a) == CHOOSE i \in 1..Len(NameOrder) : NameOrder[i] = a

\* priorities.top : NONE < DEFAULT < TOOLBOX < DEBUG
RankDEFAULT == 1
RankTOOLBOX == 2

FPIds == {"bis", "one", "out", "fast", "three", "num"}

\* the footprints under study: "bis", "one", "out", "fast", "three" and "num"
\* are resolved on their own (after the fixtures of tests/test_fp_core.py),
\* and so is "wide" (optional attributes with a plain default, nothing else);
\* "one", "two", "tool", "knum" and "num" are the footprints of the classes a
\* collector holds
\* "echo" is the footprint of a class whose remap table sends 'foo' to the
\* string '[someint]'
\* "dflt" declares a default for its mandatory attribute
\* "meth" has an attribute of type Foo
FP(id) ==
    CASE id = "bis" ->
           [keys |-> <<"stuff1", "stuff2">>,
            attr |-> [a \in {"stuff1", "stuff2"} |->
               IF a = "stuff1"
               THEN AttrDef(FALSE, None, {"arg1"}, {}, {}, {}, "str")
               ELSE AttrDef(TRUE, Word("foo"), {}, {}, {}, {}, "str")]]
      [] id = "one" ->
           [keys |-> <<"kind", "someint">>,
            attr |-> [a \in {"kind", "someint"} |->
               IF a = "kind"
               THEN AttrDef(FALSE, None, {"stuff"}, {<<Word("foo"), Word("hop")>>},
                            {Word("hip"), Word("hop")}, {}, "str")
               ELSE AttrDef(FALSE, None, {}, {}, {VInt(1), VInt(2)}, {}, "int")]]
      [] id = "out" ->
           [keys |-> <<"stuff1", "stuff2">>,
            attr |-> [a \in {"stuff1", "stuff2"} |->
               IF a = "stuff1"
               THEN AttrDef(FALSE, None, {"arg1", "arg2"}, {},
                            {Word("one"), Word("four")}, {Word("one"), Word("two")}, "str")
               ELSE AttrDef(TRUE, None, {}, {}, {Word("foo")}, {Word("two")}, "str")]]
      [] id = "fast" ->
           [keys |-> <<"stuff1", "stuff2", "kind">>,
            attr |-> [a \in {"stuff1", "stuff2", "kind"} |->
               IF a = "stuff1"
               THEN AttrDef(FALSE, None, {"arg1"}, {}, {}, {Word("two")}, "str")
               ELSE IF a = "stuff2"
               THEN AttrDef(TRUE, Word("foo"), {}, {}, {}, {}, "str")
               ELSE AttrDef(FALSE, None, {}, {}, {}, {}, "int")]]
      [] id = "three" ->
           [keys |-> <<"stuff1", "stuff2", "stuff3">>,
            attr |-> [a \in {"stuff1", "stuff2", "stuff3"} |->
               IF a = "stuff3"
               THEN AttrDef(FALSE, None, {}, {}, {}, {Word("two")}, "str")
               ELSE AttrDef(FALSE, None, {}, {}, {}, {}, "str")]]
      [] id = "two" ->
           [keys |-> <<"kind", "someint", "stuff2">>,
            attr |-> [a \in {"kind", "someint", "stuff2"} |->
               IF a = "kind"
               THEN AttrDef(FALSE, None, {}, {},
                            {Word("hip"), Word("hop"), Word("foo")}, {}, "str")
               ELSE IF a = "someint"
               THEN AttrDef(FALSE, None, {}, {}, {VInt(1), VInt(2)}, {VInt(2)}, "int")
               ELSE AttrDef(TRUE, Word("foo"), {}, {}, {}, {}, "str")]]
      [] id = "tool" ->
           [keys |-> <<"kind">>,
            attr |-> [a \in {"kind"} |->
               AttrDef(FALSE, None, {}, {}, {Word("hip")}, {}, "str")]]
      [] id = "knum" ->
           [keys |-> <<"kind">>,
            attr |-> [a \in {"kind"} |->
               AttrDef(FALSE, None, {}, {}, {VInt(1)}, {}, "int")]]
      [] id = "echo" ->
           [keys |-> <<"kind", "someint">>,
            attr |-> [a \in {"kind", "someint"} |->
               IF a = "kind"
               THEN AttrDef(FALSE, None, {}, {<<Word("foo"), VStr(<<Ref("someint")>>)>>},
                            {Word("hip"), Word("hop"), VStr(<<Ref("someint")>>)}, {}, "str")
               ELSE AttrDef(FALSE, None, {}, {}, {VInt(1), VInt(2)}, {}, "int")]]
      [] id = "dflt" ->
           [keys |-> <<"stuff1", "stuff2", "stuff3">>,
            attr |-> [a \in {"stuff1", "stuff2", "stuff3"} |->
               IF a = "stuff1"
               THEN AttrDef(FALSE, Word("x"), {"arg1"}, {}, {}, {}, "str")
               ELSE IF a = "stuff2"
               THEN AttrDef(TRUE, Word("foo"), {"arg2"}, {}, {}, {}, "str")
               ELSE AttrDef(TRUE, None, {}, {}, {}, {}, "str")]]
      [] id = "meth" ->
           [keys |-> <<"stuff1", "stuff2">>,
            attr |-> [a \in {"stuff1", "stuff2"} |->
               IF a = "stuff1"
               THEN AttrDef(FALSE, None, {}, {}, {}, {}, "str")
               ELSE AttrDef(FALSE, None, {}, {}, {}, {}, "foo")]]
      [] id = "opt" ->
           [keys |-> <<"stuff2">>,
            attr |-> [a \in {"stuff2"} |->
               AttrDef(TRUE, Word("foo"), {}, {}, {}, {}, "str")]]
      [] id = "rwd" ->
           [keys |-> <<"kind", "someint", "stuff1">>,
            attr |-> [a \in {"kind", "someint", "stuff1"} |->
               IF a = "kind"
               THEN AttrDef(FALSE, None, {}, {}, {Word("hip"), Word("hop")}, {}, "str")
               ELSE IF a = "someint"
               THEN AttrDef(TRUE, VInt(1), {}, {}, {}, {VInt(2)}, "int")
               ELSE AttrDef(TRUE, Word("foo"), {}, {<<Word("two"), Word("one")>>},
                            {Word("foo"), Word("one")}, {}, "str")]]
      [] id = "wide" ->
           [keys |-> WideNames,
            attr |-> [a \in {WideNames[i] : i \in DOMAIN WideNames} |->
               AttrDef(TRUE, Word("x"), {}, {}, {}, {}, "str")]]
      [] OTHER ->
           [keys |-> <<"someint", "stuff2">>,
            attr |-> [a \in {"someint", "stuff2"} |->
               IF a = "someint"
               THEN AttrDef(FALSE, None, {}, {<<VInt(1), VInt(2)>>},
                            {VInt(1), VInt(2)}, {}, "int")
               ELSE AttrDef(TRUE, Word("foo"), {}, {}, {}, {}, "str")]]

AttrNames(fp) == DOMAIN fp.attr

\* Footprint.allkeys
allkeys(fp) == AttrNames(fp) \cup UNION {fp.attr[a].alias : a \in AttrNames(fp)}

\* Footprint.mandatory
mandatory(fp) == {a \in AttrNames(fp) : ~fp.attr[a].optional}

\* ------------------------------------------------------------- first guess

EmptyMap == [x \in {} |-> None]

Perms(S) ==
    {f \in [1..Cardinality(S) -> S] :
        \A i, j \in 1..Cardinality(S) : f[i] = f[j] => i = j}

\* the orders in which "for a in kalias" may walk each alias set
AliasOrders(fp) ==
    {f \in [AttrNames(fp) -> UNION {Perms(fp.attr[a].alias) : a \in AttrNames(fp)}] :
        \A a \in AttrNames(fp) : f[a] \in Perms(fp.attr[a].alias)}

\* "key in desc and not (kopt and desc[key] is None)"
Usable(fp, desc, a, key) ==
    key \in DOMAIN desc /\ ~(fp.attr[a].optional /\ desc[key] = None)

\* the alias the loop "for a in kalias: ... break" stops at ("" when none)
FirstAlias(fp, desc, a, seq) ==
    LET ok == {i \in 1..Len(seq) : Usable(fp, desc, a, seq[i])}
    IN  IF ok = {} THEN ""
        ELSE seq[CHOOSE i \in ok : \A j \in ok : i <= j]

\* Footprint._firstguess
firstguess(fp, desc, param, order) ==
    LET al(a) == FirstAlias(fp, desc, a, order[a])
        val(a) ==
            IF Usable(fp, desc, a, a) THEN desc[a]
            ELSE IF al(a) # "" THEN desc[al(a)]
            ELSE IF a \in DOMAIN param THEN param[a]
            ELSE IF fp.attr[a].optional
                 THEN (IF fp.attr[a].default = None THEN UNKNOWN ELSE fp.attr[a].default)
                 ELSE None
    IN  [guess |-> [a \in AttrNames(fp) |-> val(a)],
         inputattr |-> {a \in AttrNames(fp) :
                            \/ Usable(fp, desc, a, a)
                            \/ al(a) # ""
                            \/ a \in DOMAIN param}]

\* Footprint._findextras : no callback is set and no description value is a
\* FootprintBase object, so the ground values are empty
findextras(desc) == EmptyMap

\* Footprint._addextras
addextras(extras, guess, more) ==
    [key \in DOMAIN extras \cup {m \in DOMAIN more : m \notin DOMAIN guess} |->
        IF key \in DOMAIN extras THEN extras[key] ELSE more[key]]

B2N(b) == IF b THEN 1 ELSE 0

\* the tuple (not optional, fast, name) compared as python compares tuples
KeyAfter(fp, a, b) ==
    LET ma == B2N(~fp.attr[a].optional)
        mb == B2N(~fp.attr[b].optional)
        fa == B2N(a \in FastKeys)
        fb == B2N(b \in FastKeys)
    IN  \/ ma > mb
        \/ ma = mb /\ fa > fb
        \/ ma = mb /\ fa = fb /\ NameRank(a) > NameRank(b)

RECURSIVE SortReverse(_, _)
SortReverse(fp, S) ==
    IF S = {} THEN <<>>
    ELSE LET m == CHOOSE x \in S : \A y \in S \ {x} : KeyAfter(fp, x, y)
         IN  <<m>> \o SortReverse(fp, S \ {m})

\* Footprint._resolve_keys : candidates.sort(reverse=True)
resolve_keys(fp) ==
    LET ks == SortReverse(fp, AttrNames(fp))
    IN  [keys |-> ks, fast |-> [i \in 1..Len(ks) |-> ks[i] \in FastKeys]]

\* ------------------------------------------------------------- replacement

\* Footprint.in_values
in_values(item, values) == item \in values \/ \E x \in values : x = item

\* a resolve that never consults the remap table
remap_off(rm, v) == v

\* "while guess[k] in kdef['remap']: guess[k] = kdef['remap'][guess[k]]"
RECURSIVE remap(_, _)
remap(rm, v) ==
    IF \E p \in rm : p[1] = v
    THEN remap(rm, (CHOOSE p \in rm : p[1] = v)[2])
    ELSE v

\* the type, values and outcast checks of resolve on one remapped value
reclassed(kdef, v) ==
    IF IsInstance(v, kdef.type) THEN v ELSE Reclass(kdef.type, v)

\* a resolve without the values check
checkvalues_off(kdef, v) == v

checkvalues(kdef, v) ==
    IF kdef.values # {} /\ ~in_values(v, kdef.values) THEN None ELSE v

\* a resolve without the outcast check
checkoutcast_off(kdef, v) == v

checkoutcast(kdef, v) ==
    IF kdef.outcast # {} /\ in_values(v, kdef.outcast) THEN None ELSE v

validate(kdef, v) ==
    IF v = UNKNOWN THEN v
    ELSE checkoutcast(kdef, checkvalues(kdef, reclassed(kdef, v)))

\* "getattr(starter, replm, None)" for the names of the class Foo: a method
\* called with (guess, extras) that returns v or raises, a plain attribute,
\* or nothing
GetAttr(starter, name, guess) ==
    LET sub(kind, v) == [kind |-> kind, v |-> v]
    IN  IF starter.t # "foo" THEN sub("absent", None)
        ELSE CASE name = "justdoit" ->
                      sub("call", Word("done_" \o ToString(Cardinality(DOMAIN guess))))
               [] name = "justanint" -> sub("call", VInt(3))
               [] name = "justprop" -> sub("attr", VInt(3))
               [] name = "justraise" -> sub("raise", None)
               [] name = "value" /\ starter.n # 0 -> sub("attr", VInt(starter.n))
               [] OTHER -> sub("absent", None)

\* the loop "for replm in replms" of Footprint._process_replm
RECURSIVE replm_walk(_, _, _, _)
replm_walk(starter, ms, guess, requeue) ==
    IF ms = <<>> THEN [out |-> "value", v |-> starter]
    ELSE LET subattr == GetAttr(starter, Head(ms), guess)
         IN  CASE subattr.kind = "absent" -> [out |-> "none", v |-> None]
               [] subattr.kind = "raise" ->
                      [out |-> IF requeue THEN "skip" ELSE "raise", v |-> None]
               [] subattr.kind = "call" /\ subattr.v = None -> [out |-> "none", v |-> None]
               [] OTHER -> replm_walk(subattr.v, Tail(ms), guess, requeue)

\* Footprint._process_replm, called with changed = 1
process_replm(replkv, ms, guessk, guess, requeue) ==
    Only({[changed |-> w.out # "skip",
           unreachable |-> FALSE,
           trouble |-> w.out = "raise",
           guessk |-> CASE w.out = "none" -> None
                        [] w.out = "value" -> VStr(SubFirst(guessk.s, PyStr(w.v)))
                        [] OTHER -> guessk] :
          w \in {replm_walk(replkv, ms, guess, requeue)}})

\* one turn of "while changed" in Footprint._replacement: the flag changed,
\* the working value, whether the placeholder is unreachable, and whether a
\* callable of the chain raised an exception that is not caught (trouble)
ReplIter(guessk, guess, extras, todok) ==
    IF ~HasRepl(guessk)
    THEN [changed |-> FALSE, unreachable |-> FALSE, trouble |-> FALSE, guessk |-> guessk]
    ELSE LET tok == guessk.s[FirstRepl(guessk.s)]
             replk == tok.x
             inqueue == \E i \in 1..Len(todok) : todok[i] = replk
             replk_v == IF replk \in DOMAIN guess THEN guess[replk] ELSE extras[replk]
         IN  IF replk \notin DOMAIN guess /\ replk \notin DOMAIN extras
             THEN IF tok.fb # ""
                  THEN [changed |-> TRUE, unreachable |-> FALSE, trouble |-> FALSE,
                        guessk |-> VStr(SubFirst(guessk.s, <<Lit(tok.fb)>>))]
                  ELSE [changed |-> FALSE, unreachable |-> TRUE, trouble |-> FALSE,
                        guessk |-> guessk]
             ELSE IF replk \in DOMAIN guess /\ inqueue
             THEN [changed |-> FALSE, unreachable |-> FALSE, trouble |-> FALSE,
                   guessk |-> guessk]
             ELSE IF tok.m # <<>>
             THEN process_replm(replk_v, tok.m, guessk, guess, replk \notin DOMAIN guess)
             ELSE [changed |-> TRUE, unreachable |-> FALSE, trouble |-> FALSE,
                   guessk |-> VStr(SubFirst(guessk.s, PyStr(replk_v)))]

\* ------------------------------------------------------ resolve, by steps
\* A call of Footprint.resolve is a record st of its arguments and locals;
\* pc is the position in the method: "loop" (the head of "while todok"),
\* "repl" (the test of "while changed" in _replacement), "turn" (the body of
\* that loop), "final" (the closing "for k in attrs.keys()"), "returned" and
\* "raised"; "growing" is a call left in "while changed" with a working
\* value that grows without end.

\* lines 531-561 : options, first guess, extras, work queue
resolve_begin(id, desc, param, fatal, fast, order) ==
    LET fp == FP(id)
        fg == firstguess(fp, desc, param, order)
        ex0 == addextras(findextras(desc), fg.guess, desc)
        ex == IF Extended THEN addextras(ex0, fg.guess, param) ELSE ex0
        rk == resolve_keys(fp)
        hasnone == \E a \in AttrNames(fp) : fg.guess[a] = None
    IN  [fpid |-> id, desc |-> desc, defaults |-> param,
         fatal |-> fatal, fast |-> fast, aliasorder |-> order,
         guess |-> fg.guess, extras |-> ex,
         attr_input |-> fg.inputattr, attr_seen |-> {},
         todok |-> IF hasnone THEN <<>> ELSE rk.keys,
         todokfast |-> IF hasnone THEN <<>> ELSE rk.fast,
         nbpass |-> 0, k |-> "", kfast |-> FALSE, guessk |-> None,
         changed |-> FALSE, pc |-> "loop", err |-> ""]

\* lines 565-569 and 449-453 : pop the next key, count the pass, enter
\* _replacement
pop_step(st) ==
    LET n == st.nbpass + 1
        key == Head(st.todok)
        popped == [st EXCEPT !.todok = Tail(st.todok),
                             !.todokfast = Tail(st.todokfast),
                             !.k = key, !.kfast = Head(st.todokfast),
                             !.nbpass = n]
    IN  IF n > MaxPass
        THEN [popped EXCEPT !.pc = "raised", !.err = "maxiter"]
        ELSE [popped EXCEPT !.pc = "repl", !.guessk = st.guess[key], !.changed = TRUE]

\* lines 456-457 : "while changed: changed = 0", the loop entered for a turn
turn_step(st) == [st EXCEPT !.pc = "turn", !.changed = FALSE]

\* the longest working value, in tokens, the model follows: a longer one is
\* met only where a value is substituted into itself and grows at every turn
MaxStrLen == 6

\* a body of "while changed" that turns an unreachable placeholder into a
\* None value instead of raising
repl_step_soft(st) ==
    Only({IF it.unreachable
          THEN [st EXCEPT !.guessk = None, !.changed = FALSE, !.pc = "repl"]
          ELSE IF it.trouble
          THEN [st EXCEPT !.pc = "raised", !.err = "trouble"]
          ELSE [st EXCEPT !.guessk = it.guessk, !.changed = it.changed, !.pc = "repl"] :
          it \in {ReplIter(st.guessk, st.guess, st.extras, st.todok)}})

\* lines 458-507 : the body of "while changed", which substitutes one
\* placeholder and sets changed again, leaves guessk as it is, or raises
repl_step(st) ==
    Only({IF it.unreachable
          THEN [st EXCEPT !.pc = "raised", !.err = "unreachable"]
          ELSE IF it.trouble
          THEN [st EXCEPT !.pc = "raised", !.err = "trouble"]
          ELSE IF Len(it.guessk.s) > MaxStrLen
          THEN [st EXCEPT !.pc = "growing"]
          ELSE [st EXCEPT !.guessk = it.guessk, !.changed = it.changed, !.pc = "repl"] :
          it \in {ReplIter(st.guessk, st.guess, st.extras, st.todok)}})

\* a resolve that settles a value still holding a placeholder instead of
\* putting its key back on the queue
settle_step_norequeue(st) ==
    IF st.guessk = None
    THEN [st EXCEPT !.guess[st.k] = None, !.pc = "loop"]
    ELSE LET kdef == FP(st.fpid).attr[st.k]
             v == validate(kdef, remap(kdef.remap, st.guessk))
         IN  [st EXCEPT !.guess[st.k] = v,
                        !.attr_seen = st.attr_seen \cup {st.k},
                        !.pc = IF (st.fast \/ st.kfast) /\ v = None
                               THEN "final" ELSE "loop"]

\* a resolve without the fast exit
settle_step_noexit(st) ==
    IF HasRepl(st.guessk)
    THEN [st EXCEPT !.todok = Append(st.todok, st.k),
                    !.todokfast = Append(st.todokfast, st.kfast),
                    !.pc = "loop"]
    ELSE IF st.guessk = None
    THEN [st EXCEPT !.guess[st.k] = None, !.pc = "loop"]
    ELSE LET kdef == FP(st.fpid).attr[st.k]
             v == validate(kdef, remap(kdef.remap, st.guessk))
         IN  [st EXCEPT !.guess[st.k] = v,
                        !.attr_seen = st.attr_seen \cup {st.k},
                        !.pc = "loop"]

\* lines 509-520 and 570-614 : leave _replacement (requeue or settle), then
\* remap, reclass, values, outcast and the fast exit
settle_step(st) ==
    IF HasRepl(st.guessk)
    THEN [st EXCEPT !.todok = Append(st.todok, st.k),
                    !.todokfast = Append(st.todokfast, st.kfast),
                    !.pc = "loop"]
    ELSE IF st.guessk = None
    THEN [st EXCEPT !.guess[st.k] = None, !.pc = "loop"]
    ELSE LET kdef == FP(st.fpid).attr[st.k]
             v == validate(kdef, remap(kdef.remap, st.guessk))
         IN  [st EXCEPT !.guess[st.k] = v,
                        !.attr_seen = st.attr_seen \cup {st.k},
                        !.pc = IF (st.fast \/ st.kfast) /\ v = None
                               THEN "final" ELSE "loop"]

\* a closing pass that raises the fatal error for mandatory attributes only
final_step_mandatory(st) ==
    LET fp == FP(st.fpid)
        nulled(a) == IF st.guess[a] = Word("None") THEN None ELSE st.guess[a]
        bad == {i \in 1..Len(fp.keys) :
                   nulled(fp.keys[i]) = None /\ ~fp.attr[fp.keys[i]].optional}
    IN  IF bad = {} \/ ~st.fatal
        THEN [st EXCEPT !.guess = [a \in AttrNames(fp) |-> nulled(a)],
                        !.attr_input = {a \in st.attr_input : nulled(a) # None},
                        !.pc = "returned"]
        ELSE [st EXCEPT !.pc = "raised", !.err = "fatal"]

\* lines 616-635 : the closing pass over attrs.keys()
final_step(st) ==
    LET fp == FP(st.fpid)
        nulled(a) == IF st.guess[a] = Word("None") THEN None ELSE st.guess[a]
        bad == {i \in 1..Len(fp.keys) : nulled(fp.keys[i]) = None}
    IN  IF bad = {}
        THEN [st EXCEPT !.pc = "returned"]
        ELSE IF st.fatal
        THEN LET i0 == CHOOSE i \in bad : \A j \in bad : i <= j
             IN  [st EXCEPT !.guess = [a \in AttrNames(fp) |->
                                 IF \E i \in 1..i0 : fp.keys[i] = a
                                 THEN nulled(a) ELSE st.guess[a]],
                            !.attr_input = st.attr_input \ {fp.keys[i0]},
                            !.pc = "raised", !.err = "fatal"]
        ELSE [st EXCEPT !.guess = [a \in AttrNames(fp) |-> nulled(a)],
                        !.attr_input = {a \in st.attr_input : nulled(a) # None},
                        !.pc = "returned"]

Terminal(st) == st.pc \in {"returned", "raised"}

\* the attributes a call leaves at None
NoneAttrs(st) == {a \in AttrNames(FP(st.fpid)) : st.guess[a] = None}

AtPop(st) == st.pc = "loop" /\ st.todok # <<>>
AtFinal(st) == st.pc = "final" \/ (st.pc = "loop" /\ st.todok = <<>>)
AtTurn(st) == st.pc = "repl" /\ st.changed
AtRepl(st) == st.pc = "turn"
AtSettle(st) == st.pc = "repl" /\ ~st.changed

\* the next step of a call; a turn of "while changed" is taken whole
resolve_step(st) ==
    CASE AtPop(st) -> pop_step(st)
      [] AtFinal(st) -> final_step(st)
      [] AtTurn(st) -> repl_step(turn_step(st))
      [] AtRepl(st) -> repl_step(st)
      [] AtSettle(st) -> settle_step(st)
      [] OTHER -> st

\* the turns of one "while changed" loop the model follows before it reports
\* the call as spinning
MaxSubst == 6

\* Footprint.resolve as one call: the steps in sequence.  nsub counts the
\* turns of the current "while changed" loop; a loop still turning after
\* MaxSubst turns is reported as pc = "spinning"
\* (each step's result is computed once, as the one element of a set, and
\* handed on by value)
RECURSIVE resolve_run(_, _)
resolve_run(st, nsub) ==
    IF Terminal(st) \/ st.pc = "growing" THEN st
    ELSE IF AtTurn(st)
    THEN IF nsub >= MaxSubst
         THEN [st EXCEPT !.pc = "spinning"]
         ELSE Only({resolve_run(nxt, nsub + 1) : nxt \in {resolve_step(st)}})
    ELSE Only({resolve_run(nxt, 0) : nxt \in {resolve_step(st)}})

resolve(id, desc, param, fatal, fast, order) ==
    Only({resolve_run(st, 0) : st \in {resolve_begin(id, desc, param, fatal, fast, order)}})

\* ------------------------------------------------------------ descriptions

\* a cap on the number of keys of a description
MaxDescKeys == 3

\* the values a description may give under each key
KeyVals(key) ==
    CASE key = "kind" -> {Word("hip"), Word("foo"), Word("1")}
      [] key = "someint" -> {Word("1"), VInt(1), Word("one")}
      [] key = "stuff1" -> {Word("one"), Word("two"), VStr(<<Ref("stuff2")>>),
                            VStr(<<Ref("stuff1")>>), VStr(<<Ref("more")>>),
                            VStr(<<Lit("misc"), Ref("stuff2")>>),
                            VStr(<<RefFb("more", "four")>>)}
      [] key = "stuff2" -> {Word("foo"), Word("two"), VStr(<<Ref("stuff1")>>), None}
      [] key = "stuff3" -> {Word("one"), Word("two"), VStr(<<Ref("stuff1")>>),
                            VStr(<<Ref("zz")>>)}
      [] key = "arg1" -> {Word("four")}
      [] key = "arg2" -> {Word("one")}
      [] key = "stuff" -> {Word("foo")}
      [] OTHER -> {Word("one"), VStr(<<Ref("more")>>)}

Extend(d, key, v) == [x \in DOMAIN d \cup {key} |-> IF x = key THEN v ELSE d[x]]

RECURSIVE Descs(_)
Descs(keys) ==
    IF keys = {} THEN {EmptyMap}
    ELSE LET key == CHOOSE x \in keys : TRUE
             rest == Descs(keys \ {key})
         IN  rest \cup {Extend(d, key, v) : d \in rest, v \in KeyVals(key)}

\* the keys a description is built from
DescKeys ==
    {"kind", "someint", "stuff1", "stuff2", "stuff3", "arg1", "arg2", "stuff", "more",
     WideNames[1]}

\* the descriptions tried against footprint fp
DescsOf(fp) ==
    {d \in Descs((allkeys(fp) \cap DescKeys) \cup {"more"}) :
        Cardinality(DOMAIN d) <= MaxDescKeys}

\* the process-wide defaults (setup.defaults) tried
DefaultTables ==
    {EmptyMap, [x \in {"stuff2"} |-> Word("two")],
     [x \in {"stuff2"} |-> VStr(<<Ref("arg1")>>)]}

\* --------------------------------------------------------------- collector
\* A collector is a record col: items (the registered classes), attr
\* (_fasttrack_attr), index (_fasttrack_index), type (_fasttrack_type) and
\* trap (_fasttrack_trap).  A class is named by the id of its footprint.

ClassIds == {"one", "two", "tool", "knum", "num"}

\* the attribute names a fast track may be asked for
FastAttrs == {"kind", "someint"}

\* fp.priority['level'].rank of a class: "tool" is declared at level TOOLBOX
level_rank(cls) == IF cls = "tool" THEN RankTOOLBOX ELSE RankDEFAULT

\* the class footprints give each attribute at most one alias
ClassAliasOrder(cls) == CHOOSE o \in AliasOrders(FP(cls)) : TRUE

\* Collector.__init__ : an empty catalog and _del_fasttrack
EmptyCollector ==
    [items |-> {}, attr |-> {}, index |-> EmptyMap, type |-> EmptyMap, trap |-> EmptyMap]

\* Collector._upd_fasttrack_index
upd_fasttrack_index(col, cls) ==
    LET fp == FP(cls)
        restricted(a) == a \in mandatory(fp) /\ fp.attr[a].values # {}
        attrerror == {a \in col.attr :
                         /\ restricted(a)
                         /\ col.type[a] # "none"
                         /\ col.type[a] # fp.attr[a].type}
        keep == col.attr \ attrerror
        newtype(a) ==
            IF restricted(a) /\ col.type[a] = "none" THEN fp.attr[a].type ELSE col.type[a]
        newindex(a) ==
            IF restricted(a)
            THEN [v \in DOMAIN col.index[a] \cup fp.attr[a].values |->
                     (IF v \in DOMAIN col.index[a] THEN col.index[a][v] ELSE {})
                     \cup (IF v \in fp.attr[a].values THEN {cls} ELSE {})]
            ELSE col.index[a]
        newtrap(a) == IF restricted(a) THEN col.trap[a] ELSE col.trap[a] \cup {cls}
    IN  [col EXCEPT !.attr = keep,
                    !.index = [a \in keep |-> newindex(a)],
                    !.type = [a \in keep |-> newtype(a)],
                    !.trap = [a \in keep |-> newtrap(a)]]

\* a _upd_fasttrack_delete that leaves the trap sets alone
upd_fasttrack_delete_index(col, cls) ==
    [col EXCEPT !.index = [a \in DOMAIN col.index |->
                              [v \in DOMAIN col.index[a] |-> col.index[a][v] \ {cls}]]]

\* Collector._upd_fasttrack_delete
upd_fasttrack_delete(col, cls) ==
    [col EXCEPT !.index = [a \in DOMAIN col.index |->
                              [v \in DOMAIN col.index[a] |-> col.index[a][v] \ {cls}]],
                !.trap = [a \in DOMAIN col.trap |-> col.trap[a] \ {cls}]]

\* "for mycls in self._items: self._upd_fasttrack_index(mycls)", the items
\* met in the order seq
RECURSIVE upd_fasttrack_all(_, _)
upd_fasttrack_all(col, seq) ==
    IF seq = <<>> THEN col
    ELSE upd_fasttrack_all(upd_fasttrack_index(col, Head(seq)), Tail(seq))

\* Collector._set_fasttrack
set_fasttrack(col, attrset, seq) ==
    upd_fasttrack_all([col EXCEPT !.attr = attrset,
                                  !.index = [a \in attrset |-> EmptyMap],
                                  !.type = [a \in attrset |-> "none"],
                                  !.trap = [a \in attrset |-> {}]],
                      seq)

\* Collector.add
add(col, cls) ==
    upd_fasttrack_index([col EXCEPT !.items = col.items \cup {cls}], cls)

\* Collector.discard
discard(col, bye) ==
    upd_fasttrack_delete([col EXCEPT !.items = col.items \ {bye}], bye)

\* "self._fasttrack_type[k](v, **self._fasttrack_typeargs[k])", None when it
\* raises ValueError or TypeError (as it does while the type is still None)
fasttrack_conv(ktype, v) ==
    IF ktype = "none" THEN None
    ELSE IF ktype = "int" /\ v.t = "none" THEN None
    ELSE Reclass(ktype, v)

\* Collector._fasttrack_subsetting
fasttrack_subsetting(col, desc) ==
    LET indexkey(a) ==
            IF desc[a] \in DOMAIN col.index[a] THEN desc[a]
            ELSE LET v_conv == fasttrack_conv(col.type[a], desc[a])
                 IN  IF v_conv # None /\ v_conv \in DOMAIN col.index[a]
                     THEN v_conv ELSE None
        used == {a \in DOMAIN desc \cap col.attr : indexkey(a) # None}
    IN  IF used = {} THEN col.items
        ELSE {cls \in ClassIds :
                 \A a \in used : cls \in col.index[a][indexkey(a)] \cup col.trap[a]}

\* a footprint_couldbe that does not look for None among the resolved values
footprint_couldbe_lax(cls, desc, param) ==
    Only({[cls |-> cls, pc |-> r.pc, err |-> r.err,
           resolved |-> r.pc = "returned",
           guess |-> r.guess,
           input |-> r.attr_input] :
          r \in {resolve(cls, desc, param, FALSE, FALSE, ClassAliasOrder(cls))}})

\* FootprintBase.footprint_couldbe : resolve with fatal=False and the fast
\* mode of the setup (off), then checkonly, which the class footprints, having
\* no "only" rule, pass
footprint_couldbe(cls, desc, param) ==
    Only({[cls |-> cls, pc |-> r.pc, err |-> r.err,
           resolved |-> r.pc = "returned" /\ NoneAttrs(r) = {},
           guess |-> r.guess,
           input |-> r.attr_input] :
          r \in {resolve(cls, desc, param, FALSE, FALSE, ClassAliasOrder(cls))}})

\* a weight that puts the number of inputs before the priority rank
footprint_weight_swapped(cls, realinputs) == <<realinputs, level_rank(cls)>>

\* a weight that prefers the candidate with fewer inputs
footprint_weight_fewest(cls, realinputs) == <<level_rank(cls), 0 - realinputs>>

\* FootprintBase.footprint_weight
footprint_weight(cls, realinputs) == <<level_rank(cls), realinputs>>

\* x < y for two weights, as python compares tuples
weight_lt(x, y) == x[1] < y[1] \/ (x[1] = y[1] /\ x[2] < y[2])

\* Collector.find_all over the candidates cands: an error raised for one
\* candidate leaves find_all at once (any failing candidate may be the first
\* one met), and so does a resolve that does not return
find_all(cands, desc, param) ==
    Only({[failing |-> {c.cls : c \in {x \in cbs : x.pc # "returned"}},
           failure |-> {[cls |-> c.cls, pc |-> c.pc, err |-> c.err] :
                           c \in {x \in cbs : x.pc # "returned"}},
           found |-> {c \in cbs : c.resolved}] :
          cbs \in {{footprint_couldbe(cls, desc, param) : cls \in cands}}})

\* the classes of a list of found candidates, and the number of input
\* attributes of one of them
found_classes(found) == {c.cls : c \in found}
found_inputs(found, cls) == Cardinality((CHOOSE c \in found : c.cls = cls).input)

\* "candidates.sort(key=..., reverse=True)" : a stable sort, so that of two
\* candidates of equal weight the one find_all met first stays first
RECURSIVE sort_candidates(_, _)
sort_candidates(seq, weight) ==
    IF seq = <<>> THEN <<>>
    ELSE LET top == CHOOSE i \in 1..Len(seq) :
                        /\ \A j \in 1..Len(seq) : ~weight_lt(weight[seq[i]], weight[seq[j]])
                        /\ \A j \in 1..(i - 1) : weight_lt(weight[seq[j]], weight[seq[i]])
             rest == [j \in 1..(Len(seq) - 1) |-> IF j < top THEN seq[j] ELSE seq[j + 1]]
         IN  <<seq[top]>> \o sort_candidates(rest, weight)

\* Collector.find_best on the candidates in the order find_all met them: the
\* class it instantiates, "" for None
find_best(seq, found) ==
    IF seq = <<>> THEN ""
    ELSE Head(sort_candidates(seq,
              [cls \in found_classes(found) |->
                  footprint_weight(cls, found_inputs(found, cls))]))

\* ------------------------------------------------- pickup, load, default

\* the letters str.lower changes, and what it changes them to
UpperCase ==
    <<"A", "B", "C", "D", "E", "F", "G", "H", "I", "J", "K", "L", "M",
      "N", "O", "P", "Q", "R", "S", "T", "U", "V", "W", "X", "Y", "Z">>
LowerCase ==
    <<"a", "b", "c", "d", "e", "f", "g", "h", "i", "j", "k", "l", "m",
      "n", "o", "p", "q", "r", "s", "t", "u", "v", "w", "x", "y", "z">>

\* str.lower on a name given letter by letter
lower(name) ==
    [i \in 1..Len(name) |->
        IF \E j \in 1..Len(UpperCase) : UpperCase[j] = name[i]
        THEN LowerCase[CHOOSE j \in 1..Len(UpperCase) : UpperCase[j] = name[i]]
        ELSE name[i]]

\* str.rstrip('s')
RECURSIVE rstrip_s(_)
rstrip_s(name) ==
    IF name # <<>> /\ name[Len(name)] = "s"
    THEN rstrip_s(SubSeq(name, 1, Len(name) - 1))
    ELSE name

\* the string a sequence of letters spells
RECURSIVE Spell(_)
Spell(name) == IF name = <<>> THEN "" ELSE Head(name) \o Spell(Tail(name))

\* Collector.tag_clean : "tag.lower().rstrip('s')"
tag_clean(name) == Spell(rstrip_s(lower(name)))

\* Collector._tag_default
tag_default == <<"g", "a", "r", "b", "a", "g", "e">>

\* the names a class may give in _collector
CollNames ==
    {tag_default, <<"s", "t", "u", "f", "f">>, <<"S", "t", "u", "f", "f", "s">>}

\* the tags of the collectors these names lead to
Tags == {tag_clean(name) : name \in CollNames}

\* the keys of a description that start with '_'
HiddenKeys == {"_report"}

\* cls._reusable : the class "tool" sets it to False
footprint_reusable(cls) == cls # "tool"

\* the instance number id of class cls, with the attributes it stores
Inst(cls, attrs, id) ==
    [t |-> "inst", s |-> <<>>, n |-> 0, cls |-> cls, attrs |-> attrs, id |-> id]

\* Footprint.track
track(fp, d) == {a \in DOMAIN d : a \in allkeys(fp)}

\* FootprintBase.footprint_cleanup
footprint_cleanup(inst, rd) ==
    [x \in DOMAIN rd \ track(FP(inst.cls), rd) |-> rd[x]]

\* a footprint_compatible that does not look at the values
footprint_compatible_any(inst, rd, param) ==
    Only({[pc |-> r.pc, err |-> r.err,
           rc |-> r.pc = "returned" /\ NoneAttrs(r) = {}] :
          r \in {resolve(inst.cls, rd, param, FALSE, FALSE, ClassAliasOrder(inst.cls))}})

\* FootprintBase.footprint_compatible : how the resolve ended and, when it
\* returned, the answer
footprint_compatible(inst, rd, param) ==
    Only({[pc |-> r.pc, err |-> r.err,
           rc |-> /\ r.pc = "returned"
                  /\ NoneAttrs(r) = {}
                  /\ \A a \in DOMAIN r.guess : inst.attrs[a] = r.guess[a]] :
          r \in {resolve(inst.cls, rd, param, FALSE, FALSE, ClassAliasOrder(inst.cls))}})

\* what a call leaves: how it ended, the description as it stands, the value
\* returned and the instances it created
Left(outcome, e, d, res, new) ==
    [outcome |-> outcome, err |-> e, desc |-> d, result |-> res, new |-> new]

\* Collector.pickup_and_cache for the collector col of tag tg: every way the
\* call can end (find_all may meet the candidates in any order); id numbers
\* the instance it may create
pickup_and_cache(col, tg, desc, param, id) ==
    LET d1 == [x \in DOMAIN desc \ HiddenKeys |-> desc[x]]
    IN  IF tg \in DOMAIN d1 /\ d1[tg] # None
        THEN IF d1[tg].t = "inst"
             THEN {Left("returned", "", footprint_cleanup(d1[tg], d1), None, {})}
             ELSE {Left("raised", "attribute", d1, None, {})}
        ELSE UNION {
               IF r.failing # {}
               THEN {Left(f.pc, f.err, d1, None, {}) : f \in r.failure}
               ELSE IF r.found = {}
               THEN {Left("returned", "", Extend(d1, tg, None), None, {})}
               ELSE {Left("returned", "",
                          footprint_cleanup(i, Extend(d1, tg, i)), None, {i}) :
                       i \in {Inst(c.cls, c.guess, id) :
                                c \in {x \in r.found :
                                   \E seq \in Perms(found_classes(r.found)) :
                                       x.cls = find_best(seq, r.found)}}} :
               r \in {find_all(fasttrack_subsetting(col, d1), d1, param)}}

\* Collector.load : "self.pickup(desc).get(self.tag, None)"
load(col, tg, desc, param, id) ==
    {IF o.outcome = "returned"
     THEN [o EXCEPT !.result = IF tg \in DOMAIN o.desc THEN o.desc[tg] ELSE None]
     ELSE o :
       o \in pickup_and_cache(col, tg, desc, param, id)}

\* Collector.default over the tracked instances insts, which the loop may
\* meet in any order
default(col, tg, insts, kw, param, id) ==
    LET reusable == {i \in insts : footprint_reusable(i.cls)}
        answers == [i \in reusable |-> footprint_compatible(i, kw, param)]
        failing == {i \in reusable : answers[i].pc # "returned"}
        fitting == {i \in reusable : answers[i].pc = "returned" /\ answers[i].rc}
    IN  {Left("returned", "", kw, i, {}) : i \in fitting}
        \cup {Left(answers[i].pc, answers[i].err, kw, None, {}) : i \in failing}
        \cup (IF fitting = {} /\ failing = {} THEN load(col, tg, kw, param, id) ELSE {})

\* --------------------------------------------------------------- checkonly

\* the values checkonly compares: integers, strings given letter by letter,
\* compiled patterns (objects with a match method) and None
OInt(i) == [t |-> "int", n |-> i, w |-> <<>>]
OStr(letters) == [t |-> "str", n |-> 0, w |-> letters]
OPat(letters) == [t |-> "re", n |-> 0, w |-> letters]
ONone == [t |-> "none", n |-> 0, w |-> <<>>]

\* the characters in the order python compares them
OrdChars ==
    <<"0", "1", "2", "3", "4", "5", "6", "7", "8", "9">> \o UpperCase \o <<"_">>
        \o LowerCase
CharRank(c) == CHOOSE i \in 1..Len(OrdChars) : OrdChars[i] = c

\* a < b for two strings
RECURSIVE str_lt(_, _)
str_lt(a, b) ==
    IF b = <<>> THEN FALSE
    ELSE IF a = <<>> THEN TRUE
    ELSE IF Head(a) = Head(b) THEN str_lt(Tail(a), Tail(b))
    ELSE CharRank(Head(a)) < CharRank(Head(b))

\* "x < y" and "x >= y" : "T", "F", or "E" when python raises TypeError
py_lt(x, y) ==
    IF x.t = "int" /\ y.t = "int" THEN (IF x.n < y.n THEN "T" ELSE "F")
    ELSE IF x.t = "str" /\ y.t = "str" THEN (IF str_lt(x.w, y.w) THEN "T" ELSE "F")
    ELSE "E"
py_ge(x, y) ==
    IF py_lt(x, y) = "E" THEN "E" ELSE IF py_lt(x, y) = "T" THEN "F" ELSE "T"

\* "checkvalue.match(actualvalue)" for a pattern made of plain letters, which
\* matches the strings that start with them
py_match(pat, x) ==
    IF x.t # "str" THEN "E"
    ELSE IF Len(x.w) >= Len(pat.w) /\ SubSeq(x.w, 1, Len(pat.w)) = pat.w THEN "T"
    ELSE "F"

\* k.startswith(prefix), and k.partition('_')[-1]
startswith(key, prefix) ==
    Len(key) >= Len(prefix) /\ SubSeq(key, 1, Len(prefix)) = prefix
partition_tail(key) ==
    IF \E i \in 1..Len(key) : key[i] = "_"
    THEN SubSeq(key, 1 + (CHOOSE i \in 1..Len(key) :
                             key[i] = "_" /\ \A j \in 1..(i - 1) : key[j] # "_"),
                Len(key))
    ELSE <<>>

\* what a rule is declared with: one value, or a tuple of values
One(v) == [shape |-> "one", items |-> <<v>>]
Tuple(seq) == [shape |-> "tuple", items |-> seq]

\* the values the loop "for checkvalue in v" walks: a value that has no
\* __iter__ is wrapped in a tuple, and a string is walked letter by letter
only_values(v) ==
    IF v.shape = "one" /\ v.items[1].t = "str"
    THEN [i \in 1..Len(v.items[1].w) |-> OStr(<<v.items[1].w[i]>>)]
    ELSE v.items

\* one comparison of the inner loop
only_compare(after, before, actual, checkvalue) ==
    IF after THEN py_ge(actual, checkvalue)
    ELSE IF before THEN py_lt(actual, checkvalue)
    ELSE IF checkvalue.t = "re" THEN py_match(checkvalue, actual)
    ELSE IF actual = checkvalue THEN "T" ELSE "F"

\* the inner loop: "checkflag = checkflag or ..." stops comparing at the
\* first success, and a comparison that raises ends the call
RECURSIVE only_scan(_, _, _, _)
only_scan(after, before, actual, seq) ==
    IF seq = <<>> THEN "F"
    ELSE LET c == only_compare(after, before, actual, Head(seq))
         IN  IF c = "F" THEN only_scan(after, before, actual, Tail(seq)) ELSE c

\* the attribute a rule key is about, and the value checkonly finds for it:
\* "rd.get(actualattr, params.get(actualattr, None))", params being a
\* dictionary with lower-case keys
only_after(key) == startswith(key, <<"a", "f", "t", "e", "r", "_">>)
only_before(key) == startswith(key, <<"b", "e", "f", "o", "r", "e", "_">>)
actualattr(key) == IF only_after(key) \/ only_before(key) THEN partition_tail(key) ELSE key
actualvalue(key, rd, params) ==
    IF Spell(actualattr(key)) \in DOMAIN rd THEN rd[Spell(actualattr(key))]
    ELSE IF Spell(lower(actualattr(key))) \in DOMAIN params
    THEN params[Spell(lower(actualattr(key)))]
    ELSE ONone

\* one turn of "for k, v in self.only.items()" : "pass", or how the loop is
\* left
only_rule(rule, rd, params) ==
    IF actualvalue(rule.k, rd, params) = ONone THEN "notfound"
    ELSE LET c == only_scan(only_after(rule.k), only_before(rule.k),
                            actualvalue(rule.k, rd, params), only_values(rule.v))
         IN  IF c = "T" THEN "pass" ELSE IF c = "E" THEN "raised" ELSE "notmatch"

\* ------------------------------------------------ classes and instances
\* A class is named by the id of its footprint; its flags are those the class
\* statement ends up with: _abstract (False unless the class body sets it),
\* _explicit (inherited or set) and _collector (a tuple of names).

\* the classes that are defined and instantiated
LiveClasses == {"opt", "rwd"}

\* fp.attr[a]['access'] : 'rxx' unless the footprint says otherwise
footprint_access(cls, a) ==
    CASE cls = "rwd" /\ a = "someint" -> "rwx"
      [] cls = "rwd" /\ a = "stuff1" -> "rwd"
      [] OTHER -> "rxx"

\* Collector.__init__ : no class, register on, no instance tracked
NewColl == [items |-> {}, abstract |-> {}, register |-> TRUE, instances |-> {}]

\* what a class statement leaves: the error raised ("" when none), the
\* collectors and the observer boards
Defined(e, cs, bd) == [err |-> e, colls |-> cs, board |-> bd]

\* lines 821-830 : "for cname in realcls._collector", which stops at the
\* first name that is a key of the footprint and leaves the class in the
\* collectors met before
RECURSIVE metaclass_collect(_, _, _, _, _)
metaclass_collect(cs, bd, cls, abstract, names) ==
    IF names = <<>> THEN Defined("", cs, bd)
    ELSE IF Spell(Head(names)) \in allkeys(FP(cls))
    THEN Defined("invalid", cs, bd)
    ELSE LET tg == tag_clean(Head(names))
             cs2 == [cs EXCEPT ![tg] =
                        IF abstract
                        THEN [@ EXCEPT !.abstract = @ \cup {cls}]
                        ELSE [@ EXCEPT !.items = @ \cup {cls}]]
             bd2 == IF ~abstract /\ cs[tg].register
                    THEN [bd EXCEPT ![cls] = @ \cup {tg}]
                    ELSE bd
         IN  metaclass_collect(cs2, bd2, cls, abstract, Tail(names))

\* a metaclass that lets an explicit class without mandatory attribute pass
metaclass_new_lax(cs, bd, cls, abstract, explicit, names) ==
    metaclass_collect(cs, bd, cls, abstract, names)

\* FootprintBaseMeta.__new__, lines 816-830
metaclass_new(cs, bd, cls, abstract, explicit, names) ==
    IF ~abstract /\ explicit /\ mandatory(FP(cls)) = {}
    THEN Defined("invalid", cs, bd)
    ELSE metaclass_collect(cs, bd, cls, abstract, names)

\* a footprint_riseup that notifies nobody
footprint_riseup_silent(cs, bd, cls, id) == cs

\* FootprintBase.footprint_riseup : the board of the class notifies every
\* observer registered on it, and Collector.newobsitem tracks the instance
footprint_riseup(cs, bd, cls, id) ==
    [tg \in DOMAIN cs |->
        IF tg \in bd[cls] THEN [cs[tg] EXCEPT !.instances = @ \cup {id}] ELSE cs[tg]]

\* what a construction leaves: the error raised and the attributes stored
Built(e, attrs) == [err |-> e, attrs |-> attrs]

\* FootprintBase.__init__, lines 857-872 : the attributes an instance ends
\* up with
init(cls, abstract, desc, param, checked) ==
    IF abstract THEN Built("invalid", desc)
    ELSE IF checked THEN Built("", desc)
    ELSE Only({IF r.pc = "returned" THEN Built("", r.guess) ELSE Built(r.err, desc) :
               r \in {resolve(cls, desc, param, TRUE, FALSE, ClassAliasOrder(cls))}})

\* what an access through a descriptor leaves: the error raised, the
\* attributes of the instance, whether the descriptor has lost its _attr,
\* and the value handed back
Accessed(e, attrs, lost, v) == [err |-> e, attrs |-> attrs, lost |-> lost, value |-> v]

\* FootprintAttrDescriptor.__get__ and FootprintBase.footprint_getattr
descr_get(cls, attrs, a, lost) ==
    IF lost THEN Accessed("attribute", attrs, lost, None)
    ELSE Accessed("", attrs, lost,
                  IF a \in DOMAIN attrs /\ attrs[a] # UNKNOWN THEN attrs[a] ELSE None)

\* stands for the ValueError or TypeError of a conversion
Unconverted == [t |-> "raised", s |-> <<>>, n |-> 0]

\* the value __set__ checks and stores: "elif not isinstance(value, atype)
\* and value is not None: value = atype(value, **initargs)"
set_reclass(kdef, v) ==
    IF IsInstance(v, kdef.type) \/ v = None THEN v
    ELSE IF Reclass(kdef.type, v) = None THEN Unconverted
    ELSE Reclass(kdef.type, v)

\* FootprintAttrDescriptorRXX.__set__ and FootprintAttrDescriptorRWD.__set__
\* (which FootprintAttrDescriptorRWX inherits), then
\* FootprintBase.footprint_setattr
descr_set(cls, attrs, a, v, lost) ==
    LET kdef == FP(cls).attr[a]
        value == set_reclass(kdef, v)
    IN  IF footprint_access(cls, a) = "rxx" THEN Accessed("attribute", attrs, lost, None)
        ELSE IF lost THEN Accessed("attribute", attrs, lost, None)
        ELSE IF value = Unconverted THEN Accessed("value", attrs, lost, None)
        ELSE IF kdef.values # {} /\ ~in_values(value, kdef.values)
        THEN Accessed("value", attrs, lost, None)
        ELSE IF kdef.outcast # {} /\ in_values(value, kdef.outcast)
        THEN Accessed("value", attrs, lost, None)
        ELSE Accessed("", Extend(attrs, a, value), lost, None)

\* a __delete__ that every access mode allows
descr_delete_open(cls, attrs, a, lost) ==
    IF lost THEN Accessed("attribute", attrs, lost, None)
    ELSE IF a \notin DOMAIN attrs THEN Accessed("key", attrs, lost, None)
    ELSE Accessed("", [x \in DOMAIN attrs \ {a} |-> attrs[x]], TRUE, None)

\* the __delete__ of the three descriptors: FootprintAttrDescriptorRWD calls
\* FootprintBase.footprint_delattr, then "del self._attr" on the descriptor,
\* which the class shares between its instances
descr_delete(cls, attrs, a, lost) ==
    IF footprint_access(cls, a) # "rwd" THEN Accessed("attribute", attrs, lost, None)
    ELSE IF lost THEN Accessed("attribute", attrs, lost, None)
    ELSE IF a \notin DOMAIN attrs THEN Accessed("key", attrs, lost, None)
    ELSE Accessed("", [x \in DOMAIN attrs \ {a} |-> attrs[x]], TRUE, None)

\* ------------------------------------------------- the merge of footprints

\* what a fragment of footprint holds under a key: a dict or any other value
Dict(m) == [isdict |-> TRUE, m |-> m, v |-> None]
Leaf(v) == [isdict |-> FALSE, m |-> EmptyMap, v |-> v]

\* bronx.syntax.dictmerge, of which the repository keeps a copy: d2 is merged
\* into d1; a dict of d2 found over a dict of d1 is merged into it, at any
\* depth, and any other value of d2 replaces what d1 has
RECURSIVE dictmerge(_, _)
dictmerge(d1, d2) ==
    [key \in DOMAIN d1 \cup DOMAIN d2 |->
        IF key \notin DOMAIN d2 THEN d1[key]
        ELSE IF d2[key].isdict /\ key \in DOMAIN d1 /\ d1[key].isdict
             THEN Dict(dictmerge(d1[key].m, d2[key].m))
             ELSE d2[key]]

\* the names of the priority levels a footprint may carry
LevelDEFAULT == "DEFAULT"
LevelTOOLBOX == "TOOLBOX"

\* the dict Footprint.__init__ starts from (bind, a list, is left out)
fp_skeleton ==
    [key \in {"attr", "info", "only", "priority"} |->
        CASE key = "attr" -> Dict(EmptyMap)
          [] key = "info" -> Leaf(Word("Not documented"))
          [] key = "only" -> Dict(EmptyMap)
          [] OTHER -> Dict([x \in {"level"} |-> Leaf(LevelDEFAULT)])]

\* an argument of Footprint.__init__: a plain dict or a Footprint object
AsDict(d) == [kind |-> "dict", d |-> d]
AsFootprint(d) == [kind |-> "fp", d |-> d]

\* the test Footprint.__init__ makes before it merges an argument
fp_merged_arg(a) ==
    IF a.kind = "dict" THEN DOMAIN a.d # {}
    ELSE DOMAIN a.d["attr"].m # {} \/ DOMAIN a.d["only"].m # {}

\* the loop of Footprint.__init__ over its arguments
fp_fold(fp, args) ==
    LET RECURSIVE Fold(_, _)
        Fold(acc, i) ==
            IF i > Len(args) THEN acc
            ELSE Fold(IF fp_merged_arg(args[i]) THEN dictmerge(acc, args[i].d) ELSE acc,
                      i + 1)
    IN Fold(fp, 1)

\* the keys Footprint.__init__ gives every attribute, with their values
\* (doc_visibility, doc_zorder, alias and outcast are left out)
fp_setdefault(key) ==
    CASE key = "default" -> Leaf(None)
      [] key = "optional" -> Leaf(FALSE)
      [] key = "access" -> Leaf("rxx")
      [] key = "remap" -> Dict(EmptyMap)
      [] OTHER -> Leaf({})

FilledKeys == {"default", "optional", "access", "remap", "values"}

\* the end of Footprint.__init__: every attribute gets the keys it lacks
fp_fill(fp) ==
    [fp EXCEPT !["attr"] =
        Dict([a \in DOMAIN fp["attr"].m |->
                Dict([key \in DOMAIN fp["attr"].m[a].m \cup FilledKeys |->
                        IF key \in DOMAIN fp["attr"].m[a].m
                        THEN fp["attr"].m[a].m[key]
                        ELSE fp_setdefault(key)])])]

\* Footprint(*args)
Footprint_init(args) == fp_fill(fp_fold(fp_skeleton, args))

\* the footprint the metaclass gives a class: the footprints of the bases
\* named in the class statement, in reverse order, then its own fragment
metaclass_merge(basefps, fplocal) ==
    LET bcfp == [i \in 1..Len(basefps) |-> AsFootprint(basefps[Len(basefps) + 1 - i])]
    IN Footprint_init(Append(bcfp, AsDict(fplocal)))

\* the method resolution order of python (C3): the merge of the orders of the
\* bases and of the list of bases; <<0>> when there is none
RECURSIVE c3_merge(_)
c3_merge(seqs) ==
    LET left == SelectSeq(seqs, LAMBDA s : s # <<>>)
        heads == {i \in 1..Len(left) :
                    \A j \in 1..Len(left) :
                        \A n \in 2..Len(left[j]) : left[j][n] # left[i][1]}
    IN IF left = <<>> THEN <<>>
       ELSE IF heads = {} THEN <<0>>
       ELSE LET i == CHOOSE x \in heads : \A y \in heads : x <= y
                c == left[i][1]
                rest == c3_merge([j \in 1..Len(left) |->
                                    IF left[j][1] = c THEN Tail(left[j]) ELSE left[j]])
            IN IF rest = <<0>> THEN <<0>> ELSE <<c>> \o rest

\* the order of a new class numbered c with these bases, mros holding the
\* orders of the classes defined before
mro(c, bases, mros) ==
    LET rest == c3_merge(Append([i \in 1..Len(bases) |-> mros[bases[i]]], bases))
    IN IF rest = <<0>> THEN <<0>> ELSE <<c>> \o rest

\* ---------------------------------------------------------- the priority set

\* str.upper on a name given letter by letter
upper(name) ==
    [i \in 1..Len(name) |->
        IF \E j \in 1..Len(LowerCase) : LowerCase[j] = name[i]
        THEN UpperCase[CHOOSE j \in 1..Len(LowerCase) : LowerCase[j] = name[i]]
        ELSE name[i]]

\* list.index, counted from 0, and list.remove: both raise ValueError when x
\* is not in the list, which the callers below test first
list_index(l, x) == (CHOOSE i \in 1..Len(l) : l[i] = x /\ \A j \in 1..(i - 1) : l[j] # x) - 1

list_remove(l, x) ==
    [i \in 1..(Len(l) - 1) |-> IF i <= list_index(l, x) THEN l[i] ELSE l[i + 1]]

\* list.insert for a position that is not negative
list_insert(l, ipos, x) ==
    IF ipos >= Len(l) THEN Append(l, x)
    ELSE [i \in 1..(Len(l) + 1) |->
            IF i <= ipos THEN l[i] ELSE IF i = ipos + 1 THEN x ELSE l[i - 1]]

InList(l, x) == \E i \in 1..Len(l) : l[i] = x

\* the name the order at construction is kept under
tag_frozen == <<"d", "e", "f", "a", "u", "l", "t">>

\* a priority set: _levels, the names that have a level object in __dict__,
\* and _freeze
PSet(l, d, f) == [levels |-> l, dict |-> d, freeze |-> f]

\* what a method of the set leaves: the set, the exception and the result
Ranked(ps, e, v) == [ps |-> ps, err |-> e, value |-> v]

\* extend without the removal of the name already there
pset_extend_keep(ps, names) ==
    LET RECURSIVE Loop(_, _)
        Loop(acc, i) ==
            IF i > Len(names) THEN acc
            ELSE LET levelname == upper(names[i])
                 IN Loop([acc EXCEPT !.levels = Append(acc.levels, levelname),
                                     !.dict = acc.dict \cup {levelname}], i + 1)
    IN Loop(ps, 1)

\* PrioritySet.extend
pset_extend(ps, names) ==
    LET RECURSIVE Strip(_, _)
        Strip(l, x) == IF InList(l, x) THEN Strip(list_remove(l, x), x) ELSE l
        RECURSIVE Loop(_, _)
        Loop(acc, i) ==
            IF i > Len(names) THEN acc
            ELSE LET levelname == upper(names[i])
                 IN Loop([acc EXCEPT !.levels = Append(Strip(acc.levels, levelname), levelname),
                                     !.dict = acc.dict \cup {levelname}], i + 1)
    IN Loop(ps, 1)

\* PrioritySet(levels=...)
pset_init(names) ==
    LET ps == pset_extend(PSet(<<>>, {}, EmptyMap), names)
    IN [ps EXCEPT !.freeze = [t \in {tag_frozen} |-> ps.levels]]

\* PrioritySet.level for a name: None when the set has no such level
pset_level(ps, tg) ==
    IF tg # <<>> /\ InList(ps.levels, upper(tg))
    THEN IF upper(tg) \in ps.dict THEN Ranked(ps, "", upper(tg))
         ELSE Ranked(ps, "key", <<>>)
    ELSE Ranked(ps, "", <<>>)

\* PrioritySet.levelindex, which is PriorityLevel.rank
pset_levelindex(ps, tg) ==
    IF ~InList(ps.levels, upper(tg)) THEN Ranked(ps, "value", 0)
    ELSE Ranked(ps, "", list_index(ps.levels, upper(tg)))

\* PrioritySet.rerank
pset_rerank(ps, tg, upd) ==
    IF ~InList(ps.levels, upper(tg)) THEN Ranked(ps, "value", <<>>)
    ELSE LET shifted == list_index(ps.levels, upper(tg)) + upd
             ipos == IF shifted < 0 THEN 0 ELSE shifted
             after == [ps EXCEPT !.levels =
                          list_insert(list_remove(ps.levels, upper(tg)), ipos, upper(tg))]
         IN Ranked(after, pset_level(after, upper(tg)).err, upper(tg))

\* PrioritySet.remove for a name
pset_remove(ps, tg) ==
    IF ~InList(ps.levels, upper(tg)) THEN Ranked(ps, "value", <<>>)
    ELSE LET gone == [ps EXCEPT !.levels = list_remove(ps.levels, upper(tg))]
         IN IF upper(tg) \notin ps.dict THEN Ranked(gone, "key", <<>>)
            ELSE Ranked([gone EXCEPT !.dict = ps.dict \ {upper(tg)}], "", <<>>)

\* PrioritySet.insert: where is "after", "before" or "" for neither; the
\* name is taken out of the list before the reference is looked for
pset_insert(ps, tg, where, ref) ==
    LET grown == pset_extend(ps, <<upper(tg)>>)
        out == [grown EXCEPT !.levels = list_remove(grown.levels, upper(tg))]
    IN IF where = "" THEN Ranked(grown, "", upper(tg))
       ELSE IF ~InList(out.levels, upper(ref)) THEN Ranked(out, "value", <<>>)
       ELSE LET ipos == list_index(out.levels, upper(ref)) + (IF where = "after" THEN 1 ELSE 0)
                done == [out EXCEPT !.levels = list_insert(out.levels, ipos, upper(tg))]
            IN Ranked(done, "", upper(tg))

\* freeze that tests the name before it lowers it
pset_freeze_raw(ps, tg) ==
    IF tg = tag_frozen THEN Ranked(ps, "value", <<>>)
    ELSE Ranked([ps EXCEPT !.freeze =
                    [t \in DOMAIN ps.freeze \cup {lower(tg)} |->
                        IF t = lower(tg) THEN ps.levels ELSE ps.freeze[t]]], "", <<>>)

\* PrioritySet.freeze
pset_freeze(ps, tg) ==
    IF lower(tg) = tag_frozen THEN Ranked(ps, "value", <<>>)
    ELSE Ranked([ps EXCEPT !.freeze =
                    [t \in DOMAIN ps.freeze \cup {lower(tg)} |->
                        IF t = lower(tg) THEN ps.levels ELSE ps.freeze[t]]], "", <<>>)

\* PrioritySet.restore
pset_restore(ps, tg) ==
    IF lower(tg) \notin DOMAIN ps.freeze THEN Ranked(ps, "key", <<>>)
    ELSE Ranked([ps EXCEPT !.levels = ps.freeze[lower(tg)],
                           !.dict = ps.dict \cup {ps.freeze[lower(tg)][i] :
                                                    i \in 1..Len(ps.freeze[lower(tg)])}],
                "", <<>>)

\* PrioritySet.reset
pset_reset(ps) == pset_restore(ps, tag_frozen)

\* PriorityLevel.__eq__ and __gt__ of the level named a: other is a level of
\* the set when islevel, else anything that str() turns into the name other
level_compare(ps, a, other, islevel, op) ==
    LET found == IF islevel THEN Ranked(ps, "", other) ELSE pset_level(ps, other)
        mine == pset_levelindex(ps, a)
        theirs == pset_levelindex(ps, found.value)
    IN IF found.err # "" THEN Ranked(ps, found.err, FALSE)
       ELSE IF found.value = <<>> THEN Ranked(ps, "attribute", FALSE)
       ELSE IF mine.err # "" THEN Ranked(ps, mine.err, FALSE)
       ELSE IF theirs.err # "" THEN Ranked(ps, theirs.err, FALSE)
       ELSE Ranked(ps, "", IF op = "eq" THEN mine.value = theirs.value
                           ELSE mine.value > theirs.value)

\* priorities.top
priorities_top ==
    pset_init(<<<<"n", "o", "n", "e">>, <<"d", "e", "f", "a", "u", "l", "t">>,
                <<"t", "o", "o", "l", "b", "o", "x">>, <<"d", "e", "b", "u", "g">>>>)

\* -------------------------------------------------------- the diagnostics log

REPORT_WHY_MISSING == "Missing value"
REPORT_WHY_INVALID == "Invalid value"
REPORT_WHY_OUTSIDE == "Not in values"
REPORT_WHY_OUTCAST == "Outcast value"
REPORT_WHY_RECLASS == "Could not reclass"

\* A FootprintLog is a record: log is the list of the collector entries, each
\* with the list of its class entries, each with the list of its attribute
\* entries; cur is the path of _current in that tree (<<>> for None, <<c>> for
\* a collector entry, <<c, j>> for a class entry); last tells what the last
\* call of add was and whether it raised FootprintBadLogEntry.
LogEntry(name) == [name |-> name, items |-> <<>>]

Added(op) == [op |-> op, raised |-> FALSE]
BadLogEntry(op) == [op |-> op, raised |-> TRUE]

\* FootprintLog.add_collector
add_collector(rep, name) ==
    [rep EXCEPT !.log = Append(rep.log, LogEntry(name)),
                !.cur = <<Len(rep.log) + 1>>,
                !.last = Added("collector")]

\* a log that hangs every candidate on its first collector entry
add_candidate_first(rep, name) ==
    LET cur == IF Len(rep.cur) = 2 THEN <<rep.cur[1]>> ELSE rep.cur
    IN  IF Len(cur) # 1
        THEN [rep EXCEPT !.cur = cur, !.last = BadLogEntry("candidate")]
        ELSE [rep EXCEPT !.log[1].items = Append(@, LogEntry(name)),
                         !.cur = <<1, Len(rep.log[1].items) + 1>>,
                         !.last = Added("candidate")]

\* FootprintLog.add_candidate
add_candidate(rep, name) ==
    LET cur == IF Len(rep.cur) = 2 THEN <<rep.cur[1]>> ELSE rep.cur
    IN  IF Len(cur) # 1
        THEN [rep EXCEPT !.cur = cur, !.last = BadLogEntry("candidate")]
        ELSE [rep EXCEPT !.log[cur[1]].items = Append(@, LogEntry(name)),
                         !.cur = <<cur[1], Len(rep.log[cur[1]].items) + 1>>,
                         !.last = Added("candidate")]

\* FootprintLog.add_attribute
add_attribute(rep, name, why) ==
    IF Len(rep.cur) # 2
    THEN [rep EXCEPT !.last = BadLogEntry("attribute")]
    ELSE [rep EXCEPT !.log[rep.cur[1]].items[rep.cur[2]].items =
                         Append(@, [name |-> name, why |-> why]),
                     !.last = Added("attribute")]

\* FootprintLog.add : kw is the keyword that says what the entry is
report_add(rep, kw) ==
    CASE kw.key = "collector" -> add_collector(rep, kw.name)
      [] kw.key = "candidate" -> add_candidate(rep, kw.name)
      [] kw.key = "attribute" -> add_attribute(rep, kw.name, kw.why)
      [] OTHER -> [rep EXCEPT !.last = BadLogEntry("other")]

\* report.add(attribute=k, why=...) for each reason of whys, up to the first
\* call that raises
RECURSIVE add_whys(_, _, _)
add_whys(rep, name, whys) ==
    IF whys = <<>> THEN rep
    ELSE LET r == report_add(rep, [key |-> "attribute", name |-> name, why |-> Head(whys)])
         IN  IF r.last.raised THEN r ELSE add_whys(r, name, Tail(whys))

\* lines 580-609 : what the type, values and outcast checks of resolve report
\* on the value settle_step validates
settle_whys(st) ==
    IF HasRepl(st.guessk) \/ st.guessk = None THEN <<>>
    ELSE LET kdef == FP(st.fpid).attr[st.k]
             v == remap(kdef.remap, st.guessk)
             r == reclassed(kdef, v)
             c == checkvalues(kdef, r)
         IN  IF v = UNKNOWN THEN <<>>
             ELSE (IF ~IsInstance(v, kdef.type) /\ r = None
                   THEN <<REPORT_WHY_RECLASS>> ELSE <<>>)
                  \o (IF kdef.values # {} /\ ~in_values(r, kdef.values)
                      THEN <<REPORT_WHY_OUTSIDE>> ELSE <<>>)
                  \o (IF kdef.outcast # {} /\ in_values(c, kdef.outcast)
                      THEN <<REPORT_WHY_OUTCAST>> ELSE <<>>)

\* lines 616-625 : what the closing pass reports on the attribute a
final_whys(st, dg, a) ==
    (IF st.guess[a] = Word("None") /\ a \notin dg
     THEN <<REPORT_WHY_INVALID>> ELSE <<>>)
    \o (IF st.guess[a] \in {None, Word("None")} /\ a \notin dg
        THEN <<REPORT_WHY_MISSING>> ELSE <<>>)

\* the closing pass of resolve on the log rep: the attributes are taken in
\* the order of attrs.keys(), down to the one that is fatal
RECURSIVE final_report(_, _, _, _)
final_report(st, dg, rep, i) ==
    LET fp == FP(st.fpid)
        a == fp.keys[i]
        r == add_whys(rep, a, final_whys(st, dg, a))
    IN  IF i > Len(fp.keys) THEN rep
        ELSE IF r.last.raised THEN r
        ELSE IF st.fatal /\ st.guess[a] \in {None, Word("None")} THEN r
        ELSE final_report(st, dg, r, i + 1)

\* ------------------------------------------------------------------ state

VARIABLES
    fpid,        \* the footprint resolve is called on
    desc,        \* the description given to resolve
    defaults,    \* setup.defaults
    opt_fatal,   \* opts['fatal']
    opt_fast,    \* opts['fast']
    aliasorder,  \* the order in which this interpreter walks each alias set
    guess, extras, attr_input, attr_seen,
    todok, todokfast, nbpass,
    k, kfast, guessk,   \* the key being replaced and its working value
    changed,     \* the local "changed" of _replacement
    pc, err,
    mode,        \* "first" for the first call; for the second call, how it
                 \* was made: "again", "rerun", "feedback", "alias" or "order"
    prev,        \* the outcome of the first call
    items,             \* the classes the collector holds
    fasttrack_attr,    \* Collector._fasttrack_attr
    fasttrack_index,   \* Collector._fasttrack_index
    fasttrack_type,    \* Collector._fasttrack_type
    fasttrack_trap,    \* Collector._fasttrack_trap
    search,            \* the search in progress and what it gave
    tag,               \* Collector.tag
    instances,         \* Collector.instances, the live instances it tracks
    picked,            \* what the last pickup, load or default left
    only,              \* the call of checkonly in progress
    defined,           \* the classes defined so far, with their flags
    colls,             \* the collectors by tag: items, register, instances
    board,             \* the observers registered for each class
    live,              \* the live instances
    born,              \* the attributes each live instance was built with
    noattr,            \* the descriptors that have lost their _attr
    did,               \* the last operation on a class or an instance
    levels,            \* PrioritySet._levels
    pdict,             \* the level objects in PrioritySet.__dict__
    frozen,            \* PrioritySet._freeze
    pdid,              \* the last operation on the priority set
    heritage,          \* the classes of a hierarchy, in the order of definition
    report,            \* the FootprintLog a search writes its diagnostics to
    diags              \* the local "diags" of resolve

\* the variables of a call of resolve, and those of the collector
gvars == <<report, diags>>

callvars == <<fpid, desc, defaults, opt_fatal, opt_fast, aliasorder, guess, extras,
              attr_input, attr_seen, todok, todokfast, nbpass, k, kfast, guessk,
              changed, pc, err, mode, prev>>

rvars == <<callvars, gvars>>

\* the variables of the classes and their live instances, and those of the
\* priority set and of the hierarchy of classes
lvars == <<defined, colls, board, live, born, noattr, did>>
prvars == <<levels, pdict, frozen, pdid>>
qvars == <<prvars, heritage>>
xvars == <<lvars, qvars>>

collvars == <<items, fasttrack_attr, fasttrack_index, fasttrack_type, fasttrack_trap,
              search, tag, instances, picked, only, xvars>>

cvars == <<collvars, gvars>>

\* the variables of pickup, load and default, and of checkonly
pvars == <<tag, instances, picked, only, xvars>>

vars == <<rvars, cvars>>

\* the current call as a record
RS ==
    [fpid |-> fpid, desc |-> desc, defaults |-> defaults,
     fatal |-> opt_fatal, fast |-> opt_fast, aliasorder |-> aliasorder,
     guess |-> guess, extras |-> extras,
     attr_input |-> attr_input, attr_seen |-> attr_seen,
     todok |-> todok, todokfast |-> todokfast,
     nbpass |-> nbpass, k |-> k, kfast |-> kfast, guessk |-> guessk,
     changed |-> changed, pc |-> pc, err |-> err]

Install(st) ==
    /\ fpid' = st.fpid
    /\ desc' = st.desc
    /\ defaults' = st.defaults
    /\ opt_fatal' = st.fatal
    /\ opt_fast' = st.fast
    /\ aliasorder' = st.aliasorder
    /\ guess' = st.guess
    /\ extras' = st.extras
    /\ attr_input' = st.attr_input
    /\ attr_seen' = st.attr_seen
    /\ todok' = st.todok
    /\ todokfast' = st.todokfast
    /\ nbpass' = st.nbpass
    /\ k' = st.k
    /\ kfast' = st.kfast
    /\ guessk' = st.guessk
    /\ changed' = st.changed
    /\ pc' = st.pc
    /\ err' = st.err

\* the call's variables hold the record st
Holds(st) ==
    /\ fpid = st.fpid
    /\ desc = st.desc
    /\ defaults = st.defaults
    /\ opt_fatal = st.fatal
    /\ opt_fast = st.fast
    /\ aliasorder = st.aliasorder
    /\ guess = st.guess
    /\ extras = st.extras
    /\ attr_input = st.attr_input
    /\ attr_seen = st.attr_seen
    /\ todok = st.todok
    /\ todokfast = st.todokfast
    /\ nbpass = st.nbpass
    /\ k = st.k
    /\ kfast = st.kfast
    /\ guessk = st.guessk
    /\ changed = st.changed
    /\ pc = st.pc
    /\ err = st.err

\* the call st left "while todok" by
\* "if (opts_fast or kfast) and guess[k] is None: break"
fast_exit(st) ==
    /\ Terminal(st)
    /\ st.err \in {"", "fatal"}
    /\ st.k \in st.attr_seen
    /\ st.fast \/ st.kfast
    /\ st.guess[st.k] = None

\* what a call leaves to its caller, with the first guess it started from and
\* whether it took the fast exit
Outcome(st) ==
    [pc |-> st.pc, err |-> st.err, guess |-> st.guess,
     attr_input |-> st.attr_input, attr_seen |-> st.attr_seen,
     first |-> firstguess(FP(st.fpid), st.desc, st.defaults, st.aliasorder).guess,
     fastexit |-> fast_exit(st)]

NoOutcome ==
    [pc |-> "idle", err |-> "", guess |-> EmptyMap, attr_input |-> {}, attr_seen |-> {},
     first |-> EmptyMap, fastexit |-> FALSE]

\* the record of a call not yet entered
idle_call(id, d, param, fatal, fast, order) ==
    [fpid |-> id, desc |-> d, defaults |-> param,
     fatal |-> fatal, fast |-> fast, aliasorder |-> order,
     guess |-> EmptyMap, extras |-> EmptyMap,
     attr_input |-> {}, attr_seen |-> {},
     todok |-> <<>>, todokfast |-> <<>>,
     nbpass |-> 0, k |-> "", kfast |-> FALSE, guessk |-> None,
     changed |-> FALSE, pc |-> "idle", err |-> ""]

\* the collector as a record
CS ==
    [items |-> items, attr |-> fasttrack_attr, index |-> fasttrack_index,
     type |-> fasttrack_type, trap |-> fasttrack_trap]

InstallCollector(col) ==
    /\ items' = col.items
    /\ fasttrack_attr' = col.attr
    /\ fasttrack_index' = col.index
    /\ fasttrack_type' = col.type
    /\ fasttrack_trap' = col.trap

NoSearch ==
    [op |-> "none", desc |-> EmptyMap, outcome |-> "", err |-> "", found |-> {}, best |-> ""]

\* nothing picked up yet
NoPick ==
    [tracked |-> {}, outcome |-> "", err |-> "", desc |-> EmptyMap, result |-> None,
     new |-> {}]

\* no call of checkonly
NoOnly == [rules |-> <<>>, rd |-> EmptyMap, params |-> EmptyMap, i |-> 1, pc |-> "idle"]

\* no operation on a class or an instance yet
NoDid ==
    [op |-> "none", cls |-> "", id |-> 0, attr |-> "", value |-> None, err |-> "",
     abstract |-> FALSE, explicit |-> FALSE, before |-> EmptyMap]

\* no class defined: the collectors are as Collector.__init__ leaves them
NothingLive ==
    /\ defined = EmptyMap
    /\ colls = [tg \in Tags |-> NewColl]
    /\ board = [cls \in LiveClasses |-> {}]
    /\ live = {}
    /\ born = EmptyMap
    /\ noattr = {}
    /\ did = NoDid

\* no operation on the priority set yet
NoPdid ==
    [op |-> "none", tag |-> <<>>, err |-> "", taken |-> priorities_top.freeze,
     fresh |-> {}]

\* FootprintLog.__init__ : an empty log and no current entry; cur is the
\* path of _current in the log, last holds the last call of add
NoReport ==
    /\ report = [log |-> <<>>, cur |-> <<>>, last |-> [op |-> "none", raised |-> FALSE]]
    /\ diags = {}

NoPriorities ==
    /\ heritage = <<>>
    /\ levels = priorities_top.levels
    /\ pdict = priorities_top.dict
    /\ frozen = priorities_top.freeze
    /\ pdid = NoPdid

\* a collector nobody has touched yet
CollectorIdle ==
    /\ items = EmptyCollector.items
    /\ fasttrack_attr = EmptyCollector.attr
    /\ fasttrack_index = EmptyCollector.index
    /\ fasttrack_type = EmptyCollector.type
    /\ fasttrack_trap = EmptyCollector.trap
    /\ search = NoSearch
    /\ tag = tag_clean(tag_default)
    /\ instances = {}
    /\ picked = NoPick
    /\ only = NoOnly
    /\ NothingLive
    /\ NoPriorities
    /\ NoReport

Init ==
    \E id \in FPIds, param \in DefaultTables, fatal \in BOOLEAN, fast \in BOOLEAN :
        \E d \in DescsOf(FP(id)), order \in AliasOrders(FP(id)) :
            /\ Holds(idle_call(id, d, param, fatal, fast, order))
            /\ mode = "first"
            /\ prev = NoOutcome
            /\ CollectorIdle

\* resolve is entered: lines 531-561
Begin ==
    /\ pc = "idle"
    /\ Install(resolve_begin(fpid, desc, defaults, opt_fatal, opt_fast, aliasorder))
    /\ UNCHANGED <<mode, prev, cvars>>

\* "k = todok.popleft()" and the pass ceiling
Pop ==
    /\ AtPop(RS)
    /\ Install(pop_step(RS))
    /\ UNCHANGED <<mode, prev, cvars>>

\* "while changed: changed = 0"
Turn ==
    /\ AtTurn(RS)
    /\ Install(turn_step(RS))
    /\ UNCHANGED <<mode, prev, cvars>>

\* the body of "while changed" : a substitution, none, or a raise
Replace ==
    /\ AtRepl(RS)
    /\ Install(repl_step(RS))
    /\ UNCHANGED <<mode, prev, cvars>>

\* the end of _replacement and the rest of the loop body
Settle ==
    /\ AtSettle(RS)
    /\ Install(settle_step(RS))
    /\ UNCHANGED <<mode, prev, cvars>>

\* the closing pass and the return
Final ==
    /\ AtFinal(RS)
    /\ Install(final_step(RS))
    /\ UNCHANGED <<mode, prev, cvars>>

\* the same footprint is resolved a second time in the same interpreter,
\* against the same description, defaults and options
Again ==
    /\ mode = "first"
    /\ Terminal(RS)
    /\ mode' = "again"
    /\ prev' = Outcome(RS)
    /\ Install(idle_call(fpid, desc, defaults, opt_fatal, opt_fast, aliasorder))
    /\ UNCHANGED cvars

\* the program is run a second time: a new interpreter, whose hash seed
\* gives the alias sets an iteration order of its own
Rerun ==
    /\ mode = "first"
    /\ Terminal(RS)
    /\ mode' = "rerun"
    /\ prev' = Outcome(RS)
    /\ \E order \in AliasOrders(FP(fpid)) :
           Install(idle_call(fpid, desc, defaults, opt_fatal, opt_fast, order))
    /\ UNCHANGED cvars

\* the mapping a first call returned is given to resolve as the description
Feedback ==
    /\ mode = "first"
    /\ pc = "returned"
    /\ mode' = "feedback"
    /\ prev' = Outcome(RS)
    /\ Install(idle_call(fpid, guess, defaults, opt_fatal, opt_fast, aliasorder))
    /\ UNCHANGED cvars

\* the attribute the one key of the description d names, by an alias
AliasedAttrs(fp, d) == {a \in AttrNames(fp) : DOMAIN d # {} /\ DOMAIN d \subseteq fp.attr[a].alias}

\* after resolve({a: v}), resolve({b: v}) for an alias b of a
ByAlias ==
    /\ mode = "first"
    /\ Terminal(RS)
    /\ mode' = "alias"
    /\ prev' = Outcome(RS)
    /\ \E a \in AttrNames(FP(fpid)) :
           /\ DOMAIN desc = {a}
           /\ \E b \in FP(fpid).attr[a].alias :
                  Install(idle_call(fpid, [x \in {b} |-> desc[a]], defaults,
                                    opt_fatal, opt_fast, aliasorder))
    /\ UNCHANGED cvars

\* the tuple (not optional, fast) of a sorts after that of b
FlagAfter(fp, a, b) ==
    \/ B2N(~fp.attr[a].optional) > B2N(~fp.attr[b].optional)
    \/ /\ B2N(~fp.attr[a].optional) = B2N(~fp.attr[b].optional)
       /\ B2N(a \in FastKeys) > B2N(b \in FastKeys)

\* the orders _resolve_keys gives the footprint's attributes under other
\* names: mandatory before optional, fast keys first, any order otherwise
QueueOrders(fp) ==
    {q \in Perms(AttrNames(fp)) :
        \A i, j \in 1..Len(q) : i < j => ~FlagAfter(fp, q[j], q[i])}

\* the same description resolved by the footprint whose attribute names give
\* the work queue another order
Reorder ==
    /\ mode = "first"
    /\ Terminal(RS)
    /\ mode' = "order"
    /\ prev' = Outcome(RS)
    /\ \E b \in {resolve_begin(fpid, desc, defaults, opt_fatal, opt_fast, aliasorder)} :
           /\ b.todok # <<>>
           /\ \E q \in QueueOrders(FP(fpid)) \ {b.todok} :
                  Install([b EXCEPT !.todok = q,
                                    !.todokfast = [i \in 1..Len(q) |-> q[i] \in FastKeys]])
    /\ UNCHANGED cvars

Next ==
    \/ Begin \/ Pop \/ Turn \/ Replace \/ Settle \/ Final
    \/ Again \/ Rerun \/ Feedback \/ ByAlias

Spec == Init /\ [][Next]_vars

\* one call of resolve on the footprint "bis", followed to its end
InitCall ==
    \E param \in DefaultTables, fatal \in BOOLEAN, fast \in BOOLEAN :
        \E d \in DescsOf(FP("bis")), order \in AliasOrders(FP("bis")) :
            /\ Holds(idle_call("bis", d, param, fatal, fast, order))
            /\ mode = "first"
            /\ prev = NoOutcome
            /\ CollectorIdle

Call == Begin \/ Pop \/ Turn \/ Replace \/ Settle \/ Final

\* one call of resolve on the footprint "wide"
InitWide ==
    \E param \in DefaultTables, fatal \in BOOLEAN, fast \in BOOLEAN :
        \E d \in DescsOf(FP("wide")), order \in AliasOrders(FP("wide")) :
            /\ Holds(idle_call("wide", d, param, fatal, fast, order))
            /\ mode = "first"
            /\ prev = NoOutcome
            /\ CollectorIdle

WideSpec == (InitCall \/ InitWide) /\ [][Call]_vars

\* one call of resolve on the footprint "fast", with descriptions that give
\* each attribute a value, the string 'None' among them
ClosingDescs ==
    {d \in [{"kind", "stuff1", "stuff2"} ->
               {Word("1"), Word("foo"), Word("one"), Word("two"), Word("None"),
                VStr(<<Ref("stuff1")>>), VStr(<<Ref("stuff2")>>)}] :
        /\ d["kind"] \in {Word("1"), Word("foo")}
        /\ d["stuff1"] \in {Word("one"), Word("two"), Word("None"), VStr(<<Ref("stuff2")>>)}
        /\ d["stuff2"] \in {Word("foo"), Word("None"), VStr(<<Ref("stuff1")>>)}}

InitClosing ==
    \E fatal \in BOOLEAN, fast \in BOOLEAN : \E d \in ClosingDescs :
        /\ Holds(idle_call("fast", d, EmptyMap, fatal, fast, ClassAliasOrder("fast")))
        /\ mode = "first"
        /\ prev = NoOutcome
        /\ CollectorIdle

ClosingSpec == InitClosing /\ [][Call]_vars

\* one call of resolve on the footprint "dflt", with descriptions that give
\* None or a value under the attribute names and under the aliases
GuessDescs ==
    LET vals(key) ==
            CASE key = "stuff1" -> {None, Word("one")}
              [] key = "stuff2" -> {None, Word("two")}
              [] key = "stuff3" -> {None, VStr(<<Ref("stuff2")>>)}
              [] key = "arg1" -> {None, Word("four")}
              [] OTHER -> {None, Word("foo")}
        keys == {"stuff1", "stuff2", "stuff3", "arg1", "arg2"}
    IN  UNION {{d \in [K -> {None, Word("one"), Word("two"), Word("four"), Word("foo"),
                             VStr(<<Ref("stuff2")>>)}] :
                   \A key \in K : d[key] \in vals(key)} : K \in SUBSET keys}

\* the process-wide defaults tried with them
GuessTables ==
    {EmptyMap, [x \in {"stuff1"} |-> Word("D1")],
     [x \in {"stuff2", "stuff3"} |-> IF x = "stuff2" THEN Word("D2") ELSE Word("D3")]}

InitGuess ==
    \E fatal \in BOOLEAN, param \in GuessTables : \E d \in GuessDescs :
        /\ Holds(idle_call("dflt", d, param, fatal, FALSE, ClassAliasOrder("dflt")))
        /\ mode = "first"
        /\ prev = NoOutcome
        /\ CollectorIdle

GuessSpec == InitGuess /\ [][Call]_vars

\* one call of resolve on the footprint "meth", with descriptions whose
\* placeholders name methods and attributes of a Foo given under stuff2 (a key
\* of the guess table) or under more (a key of extras)
MethodChains ==
    {<<"justdoit">>, <<"justraise">>, <<"justanint">>, <<"justprop">>, <<"value">>,
     <<"nosuch">>,
     <<"justdoit", "justraise">>, <<"justraise", "justdoit">>}

MethodDescs ==
    LET stuff1s == {VStr(<<RefM(key, ms)>>) : key \in {"stuff2", "more"}, ms \in MethodChains}
                       \cup {VStr(<<Lit("a"), RefM("more", <<"justraise">>)>>),
                             VStr(<<Ref("stuff2")>>), Word("one")}
        stuff2s == {Foo(2), Word("one")}
        all == stuff1s \cup stuff2s
    IN  UNION {{d \in [K -> all] :
                   /\ d["stuff1"] \in stuff1s
                   /\ d["stuff2"] \in stuff2s
                   /\ "more" \in K => d["more"] = Foo(2)} :
               K \in {{"stuff1", "stuff2"}, {"stuff1", "stuff2", "more"}}}

InitMethod ==
    \E fatal \in BOOLEAN : \E d \in MethodDescs :
        /\ Holds(idle_call("meth", d, EmptyMap, fatal, FALSE, ClassAliasOrder("meth")))
        /\ mode = "first"
        /\ prev = NoOutcome
        /\ CollectorIdle

MethodSpec == InitMethod /\ [][Call]_vars

\* a call of resolve, then the same call with its queue in another order
OrderSpec == Init /\ [][Call \/ Reorder]_vars

\* resolve runs on the caller's thread and is never suspended: a call that
\* can take a step takes it
FairSpec == InitCall /\ [][Call]_vars /\ WF_vars(Call)

\* ------------------------------------------------- the collector at work

\* the descriptions a search is made with
CollDescs ==
    {d \in Descs({"kind", "someint", "stuff2", "stuff"}) :
        Cardinality(DOMAIN d) <= MaxDescKeys}

CollInit ==
    \E param \in DefaultTables :
        /\ Holds(idle_call("one", EmptyMap, param, FALSE, FALSE, ClassAliasOrder("one")))
        /\ mode = "first"
        /\ prev = NoOutcome
        /\ CollectorIdle

\* a class is defined, or handed to Collector.add
Add ==
    /\ search.op = "none"
    /\ \E cls \in ClassIds : InstallCollector(add(CS, cls))
    /\ UNCHANGED <<search, rvars, pvars>>

\* Collector.discard
Discard ==
    /\ search.op = "none"
    /\ \E bye \in ClassIds : InstallCollector(discard(CS, bye))
    /\ UNCHANGED <<search, rvars, pvars>>

\* "col.fasttrack = attrset" : the items are indexed in the order the set of
\* items is iterated in
SetFasttrack ==
    /\ search.op = "none"
    /\ \E attrset \in SUBSET FastAttrs, seq \in Perms(items) :
           InstallCollector(set_fasttrack(CS, attrset, seq))
    /\ UNCHANGED <<search, rvars, pvars>>

\* what a search leaves when a candidate's resolve raised or did not return
Aborted(op, d, f) ==
    [op |-> op, desc |-> d, outcome |-> f.pc, err |-> f.err, found |-> {}, best |-> ""]

\* Collector.find_all
FindAll ==
    /\ search.op = "none"
    /\ \E d \in CollDescs :
           \E r \in {find_all(fasttrack_subsetting(CS, d), d, defaults)} :
               IF r.failing = {}
               THEN search' = [op |-> "find_all", desc |-> d, outcome |-> "returned",
                               err |-> "", found |-> r.found, best |-> ""]
               ELSE \E f \in r.failure : search' = Aborted("find_all", d, f)
    /\ UNCHANGED <<items, fasttrack_attr, fasttrack_index, fasttrack_type,
                   fasttrack_trap, rvars, pvars>>

\* Collector.find_best : find_all met the candidates in the order seq
FindBest ==
    /\ search.op = "none"
    /\ \E d \in CollDescs :
           \E r \in {find_all(fasttrack_subsetting(CS, d), d, defaults)} :
               IF r.failing = {}
               THEN \E seq \in Perms(found_classes(r.found)) :
                        search' = [op |-> "find_best", desc |-> d,
                                   outcome |-> "returned", err |-> "",
                                   found |-> r.found,
                                   best |-> find_best(seq, r.found)]
               ELSE \E f \in r.failure : search' = Aborted("find_best", d, f)
    /\ UNCHANGED <<items, fasttrack_attr, fasttrack_index, fasttrack_type,
                   fasttrack_trap, rvars, pvars>>

\* the search hands its result, or its error, to the caller
Return ==
    /\ search.op # "none"
    /\ search.outcome \in {"returned", "raised"}
    /\ search' = NoSearch
    /\ UNCHANGED <<items, fasttrack_attr, fasttrack_index, fasttrack_type,
                   fasttrack_trap, rvars, pvars>>

CollNext == Add \/ Discard \/ SetFasttrack \/ FindAll \/ FindBest \/ Return

CollSpec == CollInit /\ [][CollNext]_vars

\* ------------------------------------------ the candidates of a search

\* the classes defined while the candidates are looked at
CandClasses == {"one", "two", "knum", "echo"}

\* the values a description given to the search may hold
CandVals(key) ==
    CASE key = "kind" -> {Word("hip"), Word("foo"), Word("1"), UNKNOWN,
                          VStr(<<Ref("stuff")>>)}
      [] key = "someint" -> {Word("1"), VInt(1), VInt(2), Word("one"), UNKNOWN}
      [] key = "stuff2" -> {Word("foo"), Word("None"), VStr(<<Ref("kind")>>)}
      [] OTHER -> {Word("foo")}

RECURSIVE CandDescsOver(_)
CandDescsOver(keys) ==
    IF keys = {} THEN {EmptyMap}
    ELSE LET key == CHOOSE x \in keys : TRUE
             rest == CandDescsOver(keys \ {key})
         IN  rest \cup {Extend(d, key, v) : d \in rest, v \in CandVals(key)}

CandDescs == CandDescsOver({"kind", "someint", "stuff2", "stuff"})

\* a class is defined
AddCandidate ==
    /\ search.op = "none"
    /\ \E cls \in CandClasses : InstallCollector(add(CS, cls))
    /\ UNCHANGED <<search, rvars, pvars>>

\* Collector.find_all
Candidates ==
    /\ search.op = "none"
    /\ \E d \in CandDescs :
           \E r \in {find_all(fasttrack_subsetting(CS, d), d, defaults)} :
               IF r.failing = {}
               THEN search' = [op |-> "find_all", desc |-> d, outcome |-> "returned",
                               err |-> "", found |-> r.found, best |-> ""]
               ELSE \E f \in r.failure : search' = Aborted("find_all", d, f)
    /\ UNCHANGED <<items, fasttrack_attr, fasttrack_index, fasttrack_type,
                   fasttrack_trap, rvars, pvars>>

\* cls.footprint_couldbe(rd) : the resolved form when it is truthy
CouldBe ==
    /\ search.op = "none"
    /\ \E d \in CandDescs, cls \in items :
           \E c \in {footprint_couldbe(cls, d, defaults)} :
               IF c.pc = "returned"
               THEN search' = [op |-> "couldbe", desc |-> d, outcome |-> "returned",
                               err |-> "", found |-> {x \in {c} : x.resolved},
                               best |-> cls]
               ELSE search' = [Aborted("couldbe", d, c) EXCEPT !.best = cls]
    /\ UNCHANGED <<items, fasttrack_attr, fasttrack_index, fasttrack_type,
                   fasttrack_trap, rvars, pvars>>

CandNext == AddCandidate \/ Candidates \/ CouldBe \/ Return

CandSpec == CollInit /\ [][CandNext]_vars

\* -------------------------------------- the collector asked for instances

\* the instances a collector tracks at most
MaxInstances == 2

\* the classes defined while the collector is asked for instances
PickClasses == {"one", "two", "tool"}

\* the values a description given to pickup, load or default may hold
PickVals(key) ==
    CASE key = "kind" -> {Word("hip"), Word("foo")}
      [] key = "someint" -> {Word("1")}
      [] key = "stuff" -> {Word("foo")}
      [] key = "stuff2" -> {VStr(<<Ref("stuff1")>>)}
      [] OTHER -> {Word("one")}

RECURSIVE PickMaps(_)
PickMaps(keys) ==
    IF keys = {} THEN {EmptyMap}
    ELSE LET key == CHOOSE x \in keys : TRUE
             rest == PickMaps(keys \ {key})
         IN  rest \cup {Extend(d, key, v) : d \in rest, v \in PickVals(key)}

\* the descriptions given to pickup, load and default: the short ones may
\* also hold a hidden key, or None under the collector's tag
PickDescs ==
    UNION {{d} \cup
           (IF Cardinality(DOMAIN d) < MaxDescKeys - 1
            THEN {Extend(d, "_report", Word("one"))} \cup
                 (IF tag \in DOMAIN d THEN {} ELSE {Extend(d, tag, None)})
            ELSE {}) :
             d \in {x \in PickMaps({"kind", "someint", "stuff", "stuff2", "more"}) :
                       Cardinality(DOMAIN x) <= MaxDescKeys}}

\* the process-wide defaults while the collector is asked for instances
PickDefaults == {EmptyMap, [x \in {"stuff2"} |-> Word("two")]}

PickInit ==
    \E param \in PickDefaults, tg \in Tags :
        /\ Holds(idle_call("one", EmptyMap, param, FALSE, FALSE, ClassAliasOrder("one")))
        /\ mode = "first"
        /\ prev = NoOutcome
        /\ items = EmptyCollector.items
        /\ fasttrack_attr = EmptyCollector.attr
        /\ fasttrack_index = EmptyCollector.index
        /\ fasttrack_type = EmptyCollector.type
        /\ fasttrack_trap = EmptyCollector.trap
        /\ search = NoSearch
        /\ tag = tg
        /\ instances = {}
        /\ picked = NoPick
        /\ only = NoOnly
        /\ NothingLive
        /\ NoPriorities
        /\ NoReport

\* the number given to the next instance when insts are tracked
FreshId(insts) == CHOOSE n \in 1..(MaxInstances + 1) : \A i \in insts : i.id # n
NextId == FreshId(instances)

\* a call of op with description d that ended as o
Picked(op, d, o) ==
    /\ o.new = {} \/ Cardinality(instances) < MaxInstances
    /\ search' = [op |-> op, desc |-> d, outcome |-> o.outcome, err |-> o.err,
                   found |-> {}, best |-> ""]
    /\ picked' = [tracked |-> instances, outcome |-> o.outcome, err |-> o.err,
                   desc |-> o.desc, result |-> o.result, new |-> o.new]
    /\ instances' = instances \cup o.new

\* FootprintBaseMeta.__new__ for a class whose _collector is (name,): the
\* definition fails when the name is a key of the footprint, and the class
\* goes to the collector the name leads to
Define ==
    /\ search.op = "none"
    /\ \E cls \in PickClasses, name \in CollNames :
           IF Spell(name) \in allkeys(FP(cls))
           THEN /\ search' = [op |-> "define", desc |-> EmptyMap, outcome |-> "raised",
                              err |-> "invalid", found |-> {}, best |-> cls]
                /\ UNCHANGED <<items, fasttrack_attr, fasttrack_index, fasttrack_type,
                               fasttrack_trap>>
           ELSE /\ InstallCollector(IF tag_clean(name) = tag THEN add(CS, cls) ELSE CS)
                /\ UNCHANGED search
    /\ UNCHANGED <<rvars, pvars>>

\* Collector.discard while instances are tracked
Forget ==
    /\ search.op = "none"
    /\ \E bye \in items : InstallCollector(discard(CS, bye))
    /\ UNCHANGED <<search, rvars, pvars>>

\* a tracked instance is no longer referenced: the weak catalog drops it
Release ==
    /\ search.op = "none"
    /\ \E i \in instances : instances' = instances \ {i}
    /\ UNCHANGED <<items, fasttrack_attr, fasttrack_index, fasttrack_type,
                   fasttrack_trap, search, tag, picked, only, rvars, xvars>>

\* Collector.pickup
Pickup ==
    /\ search.op = "none"
    /\ \E d \in PickDescs :
           \E o \in pickup_and_cache(CS, tag, d, defaults, NextId) : Picked("pickup", d, o)
    /\ UNCHANGED <<items, fasttrack_attr, fasttrack_index, fasttrack_type,
                   fasttrack_trap, tag, only, rvars, xvars>>

\* Collector.load
Load ==
    /\ search.op = "none"
    /\ \E d \in PickDescs :
           \E o \in load(CS, tag, d, defaults, NextId) : Picked("load", d, o)
    /\ UNCHANGED <<items, fasttrack_attr, fasttrack_index, fasttrack_type,
                   fasttrack_trap, tag, only, rvars, xvars>>

\* Collector.default
Default ==
    /\ search.op = "none"
    /\ \E d \in PickDescs :
           \E o \in default(CS, tag, instances, d, defaults, NextId) :
               Picked("default", d, o)
    /\ UNCHANGED <<items, fasttrack_attr, fasttrack_index, fasttrack_type,
                   fasttrack_trap, tag, only, rvars, xvars>>

\* the call hands its result, or its error, to the caller
Done ==
    /\ search.op # "none"
    /\ search.outcome \in {"returned", "raised"}
    /\ search' = NoSearch
    /\ picked' = NoPick
    /\ UNCHANGED <<items, fasttrack_attr, fasttrack_index, fasttrack_type,
                   fasttrack_trap, tag, instances, only, rvars, xvars>>

PickNext == Define \/ Forget \/ Release \/ Pickup \/ Load \/ Default \/ Done

PickSpec == PickInit /\ [][PickNext]_vars

\* ------------------------------------------------- checkonly at work

\* the rules a footprint may declare under "only"
OnlyRules ==
    {[k |-> <<"s", "t", "u", "f", "f", "1">>, v |-> One(OStr(<<"h", "i">>))],
     [k |-> <<"s", "t", "u", "f", "f", "1">>, v |-> Tuple(<<OStr(<<"h", "i">>)>>)],
     [k |-> <<"s", "t", "u", "f", "f", "1">>, v |-> One(OPat(<<"h">>))],
     [k |-> <<"s", "t", "u", "f", "f", "1">>, v |-> Tuple(<<>>)],
     [k |-> <<"s", "o", "m", "e", "i", "n", "t">>, v |-> One(OInt(2))],
     [k |-> <<"s", "o", "m", "e", "i", "n", "t">>,
      v |-> Tuple(<<OStr(<<"1">>), OInt(1)>>)],
     [k |-> <<"a", "f", "t", "e", "r", "_", "s", "o", "m", "e", "i", "n", "t">>,
      v |-> One(OInt(2))],
     [k |-> <<"a", "f", "t", "e", "r", "_", "s", "o", "m", "e", "i", "n", "t">>,
      v |-> Tuple(<<OStr(<<"1">>), OInt(1)>>)],
     [k |-> <<"b", "e", "f", "o", "r", "e", "_", "s", "o", "m", "e", "i", "n", "t">>,
      v |-> Tuple(<<OInt(1), OInt(3)>>)],
     [k |-> <<"a", "f", "t", "e", "r", "_", "s", "t", "u", "f", "f", "1">>,
      v |-> Tuple(<<OStr(<<"h", "i">>)>>)],
     [k |-> <<"R", "d", "a", "t", "e">>, v |-> Tuple(<<OInt(2)>>)],
     [k |-> <<"b", "e", "f", "o", "r", "e", "_", "r", "d", "a", "t", "e">>,
      v |-> One(OInt(2))]}

\* the rules of a footprint, in the order the dictionary holds them
MaxRules == 2
OnlyTables ==
    {<<r>> : r \in OnlyRules} \cup
    (IF MaxRules < 2 THEN {}
     ELSE {t \in {<<r1, r2>> : r1 \in OnlyRules, r2 \in OnlyRules} : t[1].k # t[2].k})

\* the resolved descriptions, and the process-wide defaults
OnlyResolved ==
    {[a \in {"stuff1", "someint"} |-> IF a = "stuff1" THEN OStr(w) ELSE OInt(n)] :
        w \in {<<"h", "i">>, <<"h">>, <<"i">>}, n \in 1..MaxInt}
OnlyParams == {EmptyMap, [x \in {"rdate"} |-> OInt(1)], [x \in {"rdate"} |-> OInt(2)]}

OnlyInit ==
    /\ Holds(idle_call("one", EmptyMap, EmptyMap, FALSE, FALSE, ClassAliasOrder("one")))
    /\ mode = "first"
    /\ prev = NoOutcome
    /\ items = EmptyCollector.items
    /\ fasttrack_attr = EmptyCollector.attr
    /\ fasttrack_index = EmptyCollector.index
    /\ fasttrack_type = EmptyCollector.type
    /\ fasttrack_trap = EmptyCollector.trap
    /\ search = NoSearch
    /\ tag = tag_clean(tag_default)
    /\ instances = {}
    /\ picked = NoPick
    /\ NothingLive
    /\ NoPriorities
    /\ NoReport
    /\ \E rules \in OnlyTables, rd \in OnlyResolved, params \in OnlyParams :
           only = [rules |-> rules, rd |-> rd, params |-> params, i |-> 1, pc |-> "check"]

\* one turn of the loop over the rules
CheckOnly ==
    /\ only.pc = "check"
    /\ only.i <= Len(only.rules)
    /\ \E r \in {only_rule(only.rules[only.i], only.rd, only.params)} :
           only' = IF r = "pass" THEN [only EXCEPT !.i = @ + 1] ELSE [only EXCEPT !.pc = r]
    /\ UNCHANGED <<items, fasttrack_attr, fasttrack_index, fasttrack_type,
                   fasttrack_trap, search, tag, instances, picked, rvars, xvars>>

\* every rule passed: "return rd"
CheckReturn ==
    /\ only.pc = "check"
    /\ only.i > Len(only.rules)
    /\ only' = [only EXCEPT !.pc = "kept"]
    /\ UNCHANGED <<items, fasttrack_attr, fasttrack_index, fasttrack_type,
                   fasttrack_trap, search, tag, instances, picked, rvars, xvars>>

OnlyNext == CheckOnly \/ CheckReturn

OnlySpec == OnlyInit /\ [][OnlyNext]_vars

\* ------------------------------------------- classes and instances at work

\* the live instances the model follows at a time
MaxLive == 2

\* the tuples a class may give as _collector
CollTuples == {<<tag_default>>, <<tag_default, <<"S", "t", "u", "f", "f", "s">>>>}

\* the collectors whose register attribute is set by hand and which are
\* handed classes by hand
SideTags == Tags \ {tag_clean(tag_default)}

\* the descriptions instances are built and loaded from
LiveDescs ==
    {EmptyMap,
     [x \in {"kind"} |-> Word("hip")],
     [x \in {"kind", "someint"} |-> IF x = "kind" THEN Word("hip") ELSE VInt(2)],
     [x \in {"kind", "stuff1"} |-> IF x = "kind" THEN Word("hop") ELSE Word("two")]}

\* the operation op on class cls or on instance id, which ended with error e
Did(op, cls, id, a, v, e, flags, before) ==
    [op |-> op, cls |-> cls, id |-> id, attr |-> a, value |-> v, err |-> e,
     abstract |-> flags[1], explicit |-> flags[2], before |-> before]

LiveInit ==
    /\ Holds(idle_call("one", EmptyMap, EmptyMap, FALSE, FALSE, ClassAliasOrder("one")))
    /\ mode = "first"
    /\ prev = NoOutcome
    /\ CollectorIdle

\* the number given to the next instance
LiveId == CHOOSE n \in 1..(MaxLive + 1) : \A i \in live : i.id # n

\* a class statement
DefineClass ==
    /\ \E cls \in LiveClasses \ DOMAIN defined, abstract \in BOOLEAN,
          explicit \in BOOLEAN, names \in CollTuples :
           \E r \in {metaclass_new(colls, board, cls, abstract, explicit, names)} :
               /\ colls' = r.colls
               /\ board' = r.board
               /\ defined' = IF r.err = ""
                             THEN Extend(defined, cls,
                                         [abstract |-> abstract, explicit |-> explicit])
                             ELSE defined
               /\ did' = Did("define", cls, 0, "", None, r.err,
                             <<abstract, explicit>>, EmptyMap)
    /\ UNCHANGED <<live, born, noattr>>
    /\ UNCHANGED <<rvars, items, fasttrack_attr, fasttrack_index, fasttrack_type,
                   fasttrack_trap, search, tag, instances, picked, only, qvars>>

\* the instance i comes to life: footprint_riseup
Born(i) ==
    /\ live' = live \cup {i}
    /\ born' = Extend(born, i.id, i.attrs)
    /\ colls' = footprint_riseup(colls, board, i.cls, i.id)

\* cls(**d) : direct construction
NewInstance ==
    /\ \E cls \in DOMAIN defined, d \in LiveDescs :
           \E b \in {init(cls, defined[cls].abstract, d, defaults, FALSE)} :
               /\ IF b.err = ""
                  THEN /\ Cardinality(live) < MaxLive
                       /\ Born(Inst(cls, b.attrs, LiveId))
                  ELSE UNCHANGED <<live, born, colls>>
               /\ did' = Did("new", cls, IF b.err = "" THEN LiveId ELSE 0, "", None, b.err,
                             <<defined[cls].abstract, defined[cls].explicit>>, d)
    /\ UNCHANGED <<defined, board, noattr>>
    /\ UNCHANGED <<rvars, items, fasttrack_attr, fasttrack_index, fasttrack_type,
                   fasttrack_trap, search, tag, instances, picked, only, qvars>>

\* copy.copy, copy.deepcopy or unpickling: the class's __new__, then
\* FootprintBase.__setstate__
CopyInstance ==
    /\ Cardinality(live) < MaxLive
    /\ \E i \in live :
           /\ Born(Inst(i.cls, i.attrs, LiveId))
           /\ did' = Did("copy", i.cls, LiveId, "", None, "", <<FALSE, FALSE>>, i.attrs)
    /\ UNCHANGED <<defined, board, noattr>>
    /\ UNCHANGED <<rvars, items, fasttrack_attr, fasttrack_index, fasttrack_type,
                   fasttrack_trap, search, tag, instances, picked, only, qvars>>

\* Collector.load on the collector of tag tg: find_all, find_best and the
\* construction with checked=True
LoadInstance ==
    /\ \E tg \in Tags, d \in LiveDescs :
           \E o \in load([EmptyCollector EXCEPT !.items = colls[tg].items],
                         tg, d, defaults, LiveId) :
               /\ IF o.new = {}
                  THEN UNCHANGED <<live, born, colls>>
                  ELSE /\ Cardinality(live) < MaxLive
                       /\ \E i \in o.new : Born(i)
               /\ did' = Did("load", tg, IF o.new = {} THEN 0 ELSE LiveId, "", None, o.err,
                             <<FALSE, FALSE>>, d)
    /\ UNCHANGED <<defined, board, noattr>>
    /\ UNCHANGED <<rvars, items, fasttrack_attr, fasttrack_index, fasttrack_type,
                   fasttrack_trap, search, tag, instances, picked, only, qvars>>

\* the last reference to an instance goes: the weak catalogs drop it
ReleaseInstance ==
    /\ \E i \in live :
           /\ live' = live \ {i}
           /\ born' = [x \in DOMAIN born \ {i.id} |-> born[x]]
           /\ colls' = [tg \in DOMAIN colls |->
                           [colls[tg] EXCEPT !.instances = @ \ {i.id}]]
           /\ did' = Did("release", i.cls, i.id, "", None, "", <<FALSE, FALSE>>, i.attrs)
    /\ UNCHANGED <<defined, board, noattr>>
    /\ UNCHANGED <<rvars, items, fasttrack_attr, fasttrack_index, fasttrack_type,
                   fasttrack_trap, search, tag, instances, picked, only, qvars>>

\* "collector.register = ..." : the attribute line 828 reads
SetRegister ==
    /\ \E tg \in SideTags :
           /\ colls' = [colls EXCEPT ![tg].register = ~@]
           /\ did' = Did("register", tg, 0, "", None, "", <<FALSE, FALSE>>, EmptyMap)
    /\ UNCHANGED <<defined, board, live, born, noattr>>
    /\ UNCHANGED <<rvars, items, fasttrack_attr, fasttrack_index, fasttrack_type,
                   fasttrack_trap, search, tag, instances, picked, only, qvars>>

\* Collector.add and Collector.discard called on a class already defined
CollectorAdd ==
    /\ \E tg \in SideTags, cls \in {c \in DOMAIN defined : ~defined[c].abstract} :
           /\ cls \notin colls[tg].items
           /\ colls' = [colls EXCEPT ![tg].items = @ \cup {cls}]
           /\ did' = Did("add", cls, 0, tg, None, "", <<FALSE, FALSE>>, EmptyMap)
    /\ UNCHANGED <<defined, board, live, born, noattr>>
    /\ UNCHANGED <<rvars, items, fasttrack_attr, fasttrack_index, fasttrack_type,
                   fasttrack_trap, search, tag, instances, picked, only, qvars>>

CollectorDiscard ==
    /\ \E tg \in SideTags, cls \in DOMAIN defined :
           /\ cls \in colls[tg].items
           /\ colls' = [colls EXCEPT ![tg].items = @ \ {cls}]
           /\ did' = Did("discard", cls, 0, tg, None, "", <<FALSE, FALSE>>, EmptyMap)
    /\ UNCHANGED <<defined, board, live, born, noattr>>
    /\ UNCHANGED <<rvars, items, fasttrack_attr, fasttrack_index, fasttrack_type,
                   fasttrack_trap, search, tag, instances, picked, only, qvars>>

LiveNext ==
    \/ DefineClass \/ NewInstance \/ CopyInstance \/ LoadInstance \/ ReleaseInstance
    \/ SetRegister \/ CollectorAdd \/ CollectorDiscard

LiveSpec == LiveInit /\ [][LiveNext]_vars

\* ------------------------------------------------- attributes of instances

\* the values written to the attributes of an instance
WriteVals ==
    {None, VInt(1), VInt(2), Word("3"), Word("one"), Word("two"), Word("x")}

\* the class "rwd" is defined, concrete and explicit, in the default collector
AccessInit ==
    /\ Holds(idle_call("one", EmptyMap, EmptyMap, FALSE, FALSE, ClassAliasOrder("one")))
    /\ mode = "first"
    /\ prev = NoOutcome
    /\ items = EmptyCollector.items
    /\ fasttrack_attr = EmptyCollector.attr
    /\ fasttrack_index = EmptyCollector.index
    /\ fasttrack_type = EmptyCollector.type
    /\ fasttrack_trap = EmptyCollector.trap
    /\ search = NoSearch
    /\ tag = tag_clean(tag_default)
    /\ instances = {}
    /\ picked = NoPick
    /\ only = NoOnly
    /\ NoPriorities
    /\ NoReport
    /\ \E r \in {metaclass_new([tg \in Tags |-> NewColl], [cls \in LiveClasses |-> {}],
                               "rwd", FALSE, TRUE, <<tag_default>>)} :
           /\ colls = r.colls
           /\ board = r.board
    /\ defined = [cls \in {"rwd"} |-> [abstract |-> FALSE, explicit |-> TRUE]]
    /\ live = {}
    /\ born = EmptyMap
    /\ noattr = {}
    /\ did = NoDid

\* the instance i after an access that left the attributes attrs
Touched(i, attrs) == (live \ {i}) \cup {Inst(i.cls, attrs, i.id)}

\* "instance.a = v"
SetAttr ==
    /\ \E i \in live, v \in WriteVals :
           \E a \in AttrNames(FP(i.cls)) :
           \E r \in {descr_set(i.cls, i.attrs, a, v, <<i.cls, a>> \in noattr)} :
               /\ live' = Touched(i, r.attrs)
               /\ did' = Did("set", i.cls, i.id, a, v, r.err, <<FALSE, FALSE>>, i.attrs)
    /\ UNCHANGED <<defined, colls, board, born, noattr>>
    /\ UNCHANGED <<rvars, items, fasttrack_attr, fasttrack_index, fasttrack_type,
                   fasttrack_trap, search, tag, instances, picked, only, qvars>>

\* "del instance.a"
DelAttr ==
    /\ \E i \in live :
           \E a \in AttrNames(FP(i.cls)) :
           \E r \in {descr_delete(i.cls, i.attrs, a, <<i.cls, a>> \in noattr)} :
               /\ live' = Touched(i, r.attrs)
               /\ noattr' = IF r.lost THEN noattr \cup {<<i.cls, a>>} ELSE noattr
               /\ did' = Did("delete", i.cls, i.id, a, None, r.err, <<FALSE, FALSE>>, i.attrs)
    /\ UNCHANGED <<defined, colls, board, born>>
    /\ UNCHANGED <<rvars, items, fasttrack_attr, fasttrack_index, fasttrack_type,
                   fasttrack_trap, search, tag, instances, picked, only, qvars>>

AccessNext == NewInstance \/ ReleaseInstance \/ SetAttr \/ DelAttr

AccessSpec == AccessInit /\ [][AccessNext]_vars

\* ------------------------------------------ class statements that fail

\* the classes a statement may define, and the tuples given as _collector:
\* 'stuff' is an alias of the class "one"
DefClasses == {"opt", "rwd", "one"}
DefTuples ==
    {<<tag_default>>, <<<<"s", "t", "u", "f", "f">>>>,
     <<tag_default, <<"s", "t", "u", "f", "f">>>>,
     <<<<"s", "t", "u", "f", "f">>, tag_default>>}

DefineInit ==
    /\ Holds(idle_call("one", EmptyMap, EmptyMap, FALSE, FALSE, ClassAliasOrder("one")))
    /\ mode = "first"
    /\ prev = NoOutcome
    /\ items = EmptyCollector.items
    /\ fasttrack_attr = EmptyCollector.attr
    /\ fasttrack_index = EmptyCollector.index
    /\ fasttrack_type = EmptyCollector.type
    /\ fasttrack_trap = EmptyCollector.trap
    /\ search = NoSearch
    /\ tag = tag_clean(tag_default)
    /\ instances = {}
    /\ picked = NoPick
    /\ only = NoOnly
    /\ NoPriorities
    /\ NoReport
    /\ defined = EmptyMap
    /\ colls = [tg \in Tags |-> NewColl]
    /\ board = [cls \in DefClasses |-> {}]
    /\ live = {}
    /\ born = EmptyMap
    /\ noattr = {}
    /\ did = NoDid

\* a class statement
DefineAny ==
    /\ search.op = "none"
    /\ \E cls \in DefClasses \ DOMAIN defined, abstract \in BOOLEAN,
          explicit \in BOOLEAN, names \in DefTuples :
           \E r \in {metaclass_new(colls, board, cls, abstract, explicit, names)} :
               /\ colls' = r.colls
               /\ board' = r.board
               /\ defined' = IF r.err = ""
                             THEN Extend(defined, cls,
                                         [abstract |-> abstract, explicit |-> explicit])
                             ELSE defined
               /\ did' = Did("define", cls, 0, "", None, r.err,
                             <<abstract, explicit>>, EmptyMap)
    /\ UNCHANGED <<live, born, noattr>>
    /\ UNCHANGED <<rvars, items, fasttrack_attr, fasttrack_index, fasttrack_type,
                   fasttrack_trap, search, tag, instances, picked, only, qvars>>

\* Collector.find_all on one of the collectors, none of which has a fast
\* track
SearchIn ==
    /\ search.op = "none"
    /\ \E tg \in Tags, d \in LiveDescs :
           \E r \in {find_all(colls[tg].items, d, defaults)} :
               IF r.failing = {}
               THEN search' = [op |-> "find_all", desc |-> d, outcome |-> "returned",
                               err |-> "", found |-> r.found, best |-> tg]
               ELSE \E f \in r.failure :
                        search' = [Aborted("find_all", d, f) EXCEPT !.best = tg]
    /\ UNCHANGED <<items, fasttrack_attr, fasttrack_index, fasttrack_type,
                   fasttrack_trap, rvars, pvars>>

DefineNext == DefineAny \/ SearchIn \/ Return

DefineSpec == DefineInit /\ [][DefineNext]_vars

\* ------------------------------------------------ the hierarchy of classes

MaxClasses == 4
MaxBases == 2

\* the entry of an attribute in a fragment
FragAttr(a, m) == [key \in {"attr"} |-> Dict([x \in {a} |-> Dict(m)])]

\* the fragments a class statement may give as its _footprint
Fragments ==
    { EmptyMap,
      FragAttr("x", [key \in {"optional", "default", "values", "remap"} |->
                        CASE key = "optional" -> Leaf(TRUE)
                          [] key = "default" -> Leaf(Word("a"))
                          [] key = "values" -> Leaf({"a", "b"})
                          [] OTHER -> Dict([r \in {"r"} |-> Leaf(Word("a"))])]),
      FragAttr("x", [key \in {"default", "remap"} |->
                        IF key = "default" THEN Leaf(Word("b"))
                        ELSE Dict([r \in {"s"} |-> Leaf(Word("b"))])]),
      FragAttr("y", EmptyMap),
      [key \in {"info", "priority"} |->
          IF key = "info" THEN Leaf(Word("family"))
          ELSE Dict([x \in {"level"} |-> Leaf(LevelTOOLBOX)])],
      [key \in {"info", "only"} |->
          IF key = "info" THEN Leaf(Word("ruled"))
          ELSE Dict([x \in {"x"} |-> Leaf(Word("a"))])] }

\* the lists of bases a class statement may name among n classes
BaseLists(n) ==
    {<<>>} \cup {<<b>> : b \in 1..n}
           \cup {<<b1, b2>> : b1 \in 1..n, b2 \in 1..n}

HeritageInit ==
    /\ Holds(idle_call("one", EmptyMap, EmptyMap, FALSE, FALSE, ClassAliasOrder("one")))
    /\ mode = "first"
    /\ prev = NoOutcome
    /\ CollectorIdle

\* a class statement in a hierarchy: python refuses bases named twice and
\* bases without a consistent order, then the metaclass merges the footprints
DefineHeir ==
    /\ Len(heritage) < MaxClasses
    /\ \E fplocal \in Fragments : \E b \in BaseLists(Len(heritage)) :
           \E order \in {mro(Len(heritage) + 1, b,
                             [i \in 1..Len(heritage) |-> heritage[i].mro])} :
               /\ Len(b) <= MaxBases
               /\ \A i, j \in 1..Len(b) : b[i] = b[j] => i = j
               /\ order # <<0>>
               /\ heritage' =
                      Append(heritage,
                             [bases |-> b, own |-> fplocal, mro |-> order,
                              fp |-> metaclass_merge(
                                         [i \in 1..Len(b) |-> heritage[b[i]].fp],
                                         fplocal)])
    /\ UNCHANGED <<rvars, items, fasttrack_attr, fasttrack_index, fasttrack_type,
                   fasttrack_trap, search, tag, instances, picked, only, lvars, prvars>>

HeritageSpec == HeritageInit /\ [][DefineHeir]_vars

\* -------------------------------------------------- the priority set at work

MaxShift == 4

\* the names given to extend, insert, rerank and remove, the references
\* given to insert, the shifts given to rerank and the names given to freeze
\* and restore
LevelInputs == {<<"t", "o", "o", "l", "b", "o", "x">>, <<"D", "E", "B", "U", "G">>}
RefInputs == {<<"d", "e", "f", "a", "u", "l", "t">>, <<"T", "o", "o", "l", "b", "o", "x">>,
              <<"n", "o", "s", "u", "c", "h">>}
Shifts == {-1, 1, -MaxShift, MaxShift}
FreezeTags == {<<"t">>, <<"T">>, <<"D", "e", "f", "a", "u", "l", "t">>}
RestoreTags == {<<"t">>, <<"T">>}

PrioInit ==
    /\ Holds(idle_call("one", EmptyMap, EmptyMap, FALSE, FALSE, ClassAliasOrder("one")))
    /\ mode = "first"
    /\ prev = NoOutcome
    /\ CollectorIdle

\* the priority set as it is now
ThisSet == PSet(levels, pdict, frozen)

\* a method of the set has run and left r
Ran(r, op, tg, taken) ==
    /\ levels' = r.ps.levels
    /\ pdict' = r.ps.dict
    /\ frozen' = r.ps.freeze
    /\ pdid' = [op |-> op, tag |-> tg, err |-> r.err, taken |-> taken,
                 fresh |-> r.ps.dict \ pdict]
    /\ UNCHANGED <<rvars, items, fasttrack_attr, fasttrack_index, fasttrack_type,
                   fasttrack_trap, search, tag, instances, picked, only, lvars, heritage>>

PExtend ==
    \E x \in LevelInputs : Ran(Ranked(pset_extend(ThisSet, <<x>>), "", <<>>), "extend", x, pdid.taken)

PInsert ==
    \E x \in LevelInputs, where \in {"after", "before"}, ref \in RefInputs :
        Ran(pset_insert(ThisSet, x, where, ref), "insert", x, pdid.taken)

PRerank ==
    \E x \in LevelInputs, upd \in Shifts :
        Ran(pset_rerank(ThisSet, x, upd), "rerank", x, pdid.taken)

PRemove ==
    \E x \in LevelInputs : Ran(pset_remove(ThisSet, x), "remove", x, pdid.taken)

\* freeze: when it is accepted, pdid remembers the list under the name
PFreeze ==
    \E t \in FreezeTags :
        \E r \in {pset_freeze(ThisSet, t)} :
            Ran(r, "freeze", t,
                IF r.err # "" THEN pdid.taken
                ELSE [n \in DOMAIN pdid.taken \cup {lower(t)} |->
                        IF n = lower(t) THEN levels ELSE pdid.taken[n]])

PRestore ==
    \E t \in RestoreTags : Ran(pset_restore(ThisSet, t), "restore", t, pdid.taken)

PReset == Ran(pset_reset(ThisSet), "reset", <<>>, pdid.taken)

PrioNext == PExtend \/ PInsert \/ PRerank \/ PRemove \/ PFreeze \/ PRestore \/ PReset

PrioSpec == PrioInit /\ [][PrioNext]_vars

\* ------------------------------------------------- the diagnostics log at work

\* the collector entries a log may hold, the class entries it may hold in
\* all, and the attribute entries a caller may add by hand to one class entry
MaxCollectors == 2
MaxCandidates == 2
MaxByHand == 1

\* the classes a search looks at with reporting on, and the descriptions
ReportClasses == {"one", "two"}

ReportVals(key) ==
    CASE key = "kind" -> {Word("hip"), Word("foo"), Word("rock")}
      [] key = "someint" -> {Word("1"), VInt(2), VInt(3), Word("one")}
      [] OTHER -> {Word("None"), VStr(<<Ref("kind")>>)}

ReportDescs ==
    LET all == UNION {ReportVals(key) : key \in {"kind", "someint", "stuff2"}}
    IN  UNION {{d \in [K -> all] : \A key \in K : d[key] \in ReportVals(key)} :
               K \in SUBSET {"kind", "someint", "stuff2"}}

ReportInit ==
    /\ Holds(idle_call("one", EmptyMap, EmptyMap, FALSE, FALSE, ClassAliasOrder("one")))
    /\ mode = "first"
    /\ prev = NoOutcome
    /\ CollectorIdle

\* no call of resolve is under way
Quiet == pc \in {"idle", "returned", "raised"}

\* the number of class entries in the log
Logged ==
    Cardinality({p \in (1..Len(report.log)) \X (1..MaxCandidates) :
                    p[2] <= Len(report.log[p[1]].items)})

\* the class entry the log is at
AtClass(rep) == rep.log[rep.cur[1]].items[rep.cur[2]]

\* Collector.find_all : report_log.add(collector=self)
LogCollector ==
    /\ Quiet
    /\ Len(report.log) < MaxCollectors
    /\ report' = report_add(report, [key |-> "collector", name |-> tag])
    /\ UNCHANGED <<callvars, diags, collvars>>

\* FootprintBase.footprint_couldbe with a report: the candidate is logged,
\* then the description is resolved with fatal=False
CouldBeLogged ==
    /\ Quiet
    /\ Logged < MaxCandidates
    /\ \E cls \in ReportClasses, d \in ReportDescs :
           \E r \in {report_add(report, [key |-> "candidate", name |-> cls])} :
               /\ report' = r
               /\ UNCHANGED <<mode, prev, collvars>>
               /\ IF r.last.raised
                  THEN UNCHANGED <<fpid, desc, defaults, opt_fatal, opt_fast, aliasorder,
                                   guess, extras, attr_input, attr_seen, todok, todokfast,
                                   nbpass, k, kfast, guessk, changed, pc, err, diags>>
                  ELSE /\ Install(resolve_begin(cls, d, EmptyMap, FALSE, FALSE,
                                                ClassAliasOrder(cls)))
                       /\ diags' = {}

\* report.add(attribute=..., why=...) by a caller of the log
LogAttribute ==
    /\ Quiet
    /\ Len(report.cur) = 2 => Len(AtClass(report).items) < MaxByHand
    /\ report' = report_add(report, [key |-> "attribute", name |-> "kind",
                                     why |-> REPORT_WHY_OUTSIDE])
    /\ UNCHANGED <<callvars, diags, collvars>>

\* report.add(ridiculous=...)
LogOther ==
    /\ Quiet
    /\ report' = report_add(report, [key |-> "ridiculous", name |-> "one"])
    /\ UNCHANGED <<callvars, diags, collvars>>

\* a call that met FootprintBadLogEntry
badlog(st) == [st EXCEPT !.pc = "raised", !.err = "badlog"]

\* the end of _replacement and the rest of the loop body, with a report
SettleLogged ==
    /\ AtSettle(RS)
    /\ \E r \in {add_whys(report, k, settle_whys(RS))} :
           /\ report' = r
           /\ diags' = IF settle_whys(RS) # <<>> THEN diags \cup {k} ELSE diags
           /\ Install(IF r.last.raised THEN badlog(RS) ELSE settle_step(RS))
    /\ UNCHANGED <<mode, prev, collvars>>

\* the closing pass and the return, with a report
FinalLogged ==
    /\ AtFinal(RS)
    /\ \E r \in {final_report(RS, diags, report, 1)} :
           /\ report' = r
           /\ Install(IF r.last.raised THEN badlog(RS) ELSE final_step(RS))
    /\ UNCHANGED <<mode, prev, diags, collvars>>

ReportNext ==
    \/ LogCollector \/ CouldBeLogged \/ LogAttribute \/ LogOther
    \/ Pop \/ Turn \/ Replace \/ SettleLogged \/ FinalLogged

ReportSpec == ReportInit /\ [][ReportNext]_vars

\* ------------------------------------------- properties of the collector

\* a search that came back with a list of candidates
Searched(op) == search.op = op /\ search.outcome = "returned"

\* find_all over every registered class, the index left aside
Exhaustive == find_all(items, search.desc, defaults)

\* C1 as stated: find_all through the fast-track index returns the same set
\* of classes as find_all over all the registered classes (compared where the
\* latter returns too), and the index hands over registered classes only
C1_FasttrackEquivalent ==
    Searched("find_all") =>
        /\ fasttrack_subsetting(CS, search.desc) \subseteq items
        /\ Exhaustive.failing = {} =>
               found_classes(search.found) = found_classes(Exhaustive.found)

\* C6: find_best returns nothing when find_all found nothing; otherwise the
\* class it instantiates is one find_all found, whose pair (priority rank,
\* number of input attributes) is the lexicographic maximum over the found
\* candidates, so that no candidate of a higher priority rank is passed over
C6_BestIsLexMax ==
    Searched("find_best") =>
        IF search.found = {}
        THEN search.best = ""
        ELSE /\ search.best \in found_classes(search.found)
             /\ \A c \in search.found :
                    \/ level_rank(c.cls) < level_rank(search.best)
                    \/ /\ level_rank(c.cls) = level_rank(search.best)
                       /\ Cardinality(c.input) <= found_inputs(search.found, search.best)

\* find_best prefers a class of a higher rank to one with more inputs
C6_Witness ==
    /\ Searched("find_best")
    /\ search.best # ""
    /\ \E c \in search.found :
           /\ level_rank(c.cls) < level_rank(search.best)
           /\ Cardinality(c.input) > found_inputs(search.found, search.best)

\* the attributes of a class the description supplies, under their name or
\* under an alias
Supplied(cls, d) ==
    {a \in AttrNames(FP(cls)) :
        \/ Usable(FP(cls), d, a, a)
        \/ \E al \in FP(cls).attr[a].alias : Usable(FP(cls), d, a, al)}

\* the attributes of a class the description does not supply
Guessed(cls, d) == AttrNames(FP(cls)) \ Supplied(cls, d)

C8_LocalFailuresStayLocal ==
    search.op = "find_all" =>
        /\ search.outcome = "returned" =>
               \A cls \in items :
                   footprint_couldbe(cls, search.desc, defaults).resolved =>
                       cls \in found_classes(search.found)
        /\ search.outcome # "returned" =>
               (search.outcome = "raised" /\ search.err \in {"maxiter", "unreachable"})

\* ------------------------------------------------- properties of resolve

\* the first guess of the current call
FirstGuess == firstguess(FP(fpid), desc, defaults, aliasorder).guess

\* the call has ended as the code ends it: a return or a raise
Ended == pc \in {"returned", "raised"}

\* the current call made with fatal=False, and made with fatal=True
NonFatalTwin == resolve(fpid, desc, defaults, FALSE, opt_fast, aliasorder)
FatalTwin == resolve(fpid, desc, defaults, TRUE, opt_fast, aliasorder)

C3_ResolveTerminates == <>Ended

\* the placeholders of a value
Refs(v) == IF v.t = "str" THEN {v.s[i].x : i \in {j \in 1..Len(v.s) : v.s[j].p}} ELSE {}

\* a reaches b along the placeholders of the attributes' first-guess values
RECURSIVE RefReach(_, _, _)
RefReach(g, seen, front) ==
    LET nxt == (UNION {Refs(g[a]) : a \in front} \cap DOMAIN g) \ seen
    IN  IF nxt = {} THEN seen ELSE RefReach(g, seen \cup nxt, nxt)

RefersTo(g, a) == RefReach(g, {}, {a})

\* two attributes whose first-guess values refer to each other
AttrCycle ==
    \E a, b \in DOMAIN FirstGuess :
        /\ a # b
        /\ b \in RefersTo(FirstGuess, a)
        /\ a \in RefersTo(FirstGuess, b)

\* the loop was left by "if (opts['fast'] or kfast) and guess[k] is None: break"
FastExited ==
    /\ Ended
    /\ err \in {"", "fatal"}
    /\ k \in attr_seen
    /\ opt_fast \/ kfast
    /\ guess[k] = None

\* C4 as stated: when two attributes refer to each other, resolve raises the
\* max-iteration error
C4_CycleRaisesMaxIter == (Ended /\ AttrCycle) => err = "maxiter"

\* C4 amended: when two attributes refer to each other, resolve raises the
\* max-iteration error, whatever fatal, exactly when the first guess left no
\* attribute at None, no unreachable-attribute error came first and the fast
\* exit was not taken; otherwise it returns the mapping with its placeholders
\* or raises another error
C4_CycleOutcome ==
    (Ended /\ AttrCycle) =>
        ((err = "maxiter") <=>
            /\ \A a \in DOMAIN FirstGuess : FirstGuess[a] # None
            /\ err # "unreachable"
            /\ ~FastExited)

\* the max-iteration error raised on a cycle under fatal=False
C4_Witness ==
    /\ AttrCycle
    /\ ~opt_fatal
    /\ pc = "raised"
    /\ err = "maxiter"
    /\ nbpass = MaxPass + 1

\* the attributes that hold a value of their outcast set
Outcasts(st) ==
    {a \in AttrNames(FP(st.fpid)) :
        /\ st.guess[a] # None
        /\ FP(st.fpid).attr[a].outcast # {}
        /\ in_values(st.guess[a], FP(st.fpid).attr[a].outcast)}

\* C5 as stated: a returned mapping never holds a value of the attribute's
\* outcast set
C5_OutcastNeverSurvives == pc = "returned" => Outcasts(RS) = {}

\* C5 amended: a returned mapping never holds an outcast value in an
\* attribute resolve has validated (the seen set), and holds none at all when
\* no attribute of it is None, as under fatal=True; an attribute resolve did
\* not reach, because the first guess held a None or the fast exit was taken,
\* keeps its outcast value
C5_OutcastNeverSurvivesSeen ==
    pc = "returned" =>
        /\ Outcasts(RS) \cap attr_seen = {}
        /\ NoneAttrs(RS) = {} => Outcasts(RS) = {}
        /\ opt_fatal => Outcasts(RS) = {}

\* a value of the description that is in the values and in the outcast set
\* of its attribute, turned into None by the outcast check
C5_Witness ==
    /\ pc = "returned"
    /\ \E a \in attr_seen :
           /\ guess[a] = None
           /\ FirstGuess[a] # None
           /\ in_values(FirstGuess[a], FP(fpid).attr[a].outcast)
           /\ in_values(FirstGuess[a], FP(fpid).attr[a].values)

\* C9 as stated: a second call on the same footprint with the same
\* description, defaults and options ends as the first one did, with an
\* equal mapping, an equal input-attribute set and an equal seen-attribute set
C9_Deterministic ==
    (mode \in {"again", "rerun"} /\ Terminal(RS)) =>
        /\ pc = prev.pc
        /\ err = prev.err
        /\ guess = prev.guess
        /\ attr_input = prev.attr_input
        /\ attr_seen = prev.attr_seen

\* neither the description nor the first guess holds a placeholder
NoPlaceholder ==
    /\ \A x \in DOMAIN desc : ~HasRepl(desc[x])
    /\ \A a \in DOMAIN FirstGuess : ~HasRepl(FirstGuess[a])

\* C13 as stated: resolving a description in which no value contains a
\* placeholder never raises the max-iteration error, however many attributes
\* the footprint declares (the pass ceiling being counted per attribute)
C13_NoPlaceholderNoMaxIter == (Ended /\ NoPlaceholder) => err # "maxiter"

\* no attribute's first-guess value leads back to the attribute along the
\* placeholders
Acyclic == \A a \in DOMAIN FirstGuess : a \notin RefersTo(FirstGuess, a)

FirstExtras == resolve_begin(fpid, desc, defaults, opt_fatal, opt_fast, aliasorder).extras

\* the attributes whose first-guess value holds a placeholder without
\* fallback that names a key absent from the guess and from the extras
DeadRefs ==
    {a \in DOMAIN FirstGuess :
        /\ FirstGuess[a].t = "str"
        /\ \E i \in 1..Len(FirstGuess[a].s) :
               /\ FirstGuess[a].s[i].p
               /\ FirstGuess[a].s[i].fb = ""
               /\ FirstGuess[a].s[i].x \notin DOMAIN FirstGuess
               /\ FirstGuess[a].s[i].x \notin DOMAIN FirstExtras}

\* C12 as stated: a placeholder without fallback that names a key absent
\* from the guess and from the extras makes resolve raise the
\* unreachable-attribute error
C12_DeadRefRaises == (Ended /\ DeadRefs # {}) => err = "unreachable"

\* C12 amended: such a placeholder makes resolve raise the
\* unreachable-attribute error, under fatal=False as under fatal=True,
\* exactly when the first guess left no attribute at None, the fast exit was
\* not taken and the max-iteration error did not come first; otherwise the
\* placeholder is never looked at, and a mapping that is returned holds it
\* unchanged in an attribute that is not in the seen set
C12_DeadRefOutcome ==
    (Ended /\ DeadRefs # {}) =>
        /\ (err = "unreachable") <=>
               /\ \A a \in DOMAIN FirstGuess : FirstGuess[a] # None
               /\ ~FastExited
               /\ err # "maxiter"
        /\ (err = "unreachable") <=> (NonFatalTwin.err = "unreachable")
        /\ (err = "unreachable") <=> (FatalTwin.err = "unreachable")
        /\ pc = "returned" =>
               \E a \in DeadRefs : a \notin attr_seen /\ guess[a] = FirstGuess[a]

\* the unreachable-attribute error raised under fatal=False after another
\* attribute was settled
C12_Witness ==
    /\ DeadRefs # {}
    /\ ~opt_fatal
    /\ pc = "raised"
    /\ err = "unreachable"
    /\ attr_seen # {}

\* C11 as stated: resolve({b: v}), b an alias of a, ends as resolve({a: v})
\* ended, with the same resolved value for a
C11_AliasEquivalent ==
    (mode = "alias" /\ Terminal(RS)) =>
        /\ pc = prev.pc
        /\ err = prev.err
        /\ pc = "returned" =>
               \A a \in AliasedAttrs(FP(fpid), desc) : guess[a] = prev.guess[a]

\* the first call returned a mapping with a value for every attribute
FirstSucceeded ==
    /\ prev.pc = "returned"
    /\ \A a \in DOMAIN prev.guess : prev.guess[a] # None

RemapKeys(g) ==
    {a \in DOMAIN g : \E p \in FP(fpid).attr[a].remap : p[1] = g[a]}

C19_InputFromDescription ==
    pc = "returned" =>
        attr_input = {a \in Supplied(fpid, desc) : guess[a] # None}

\* ------------------------------------- properties of pickup, load, default

\* C20: no attribute name and no alias of a class the collector holds is the
\* collector's tag
C20_NoTagCollision == \A cls \in items : tag \notin allkeys(FP(cls))

\* C15: after a pickup that selected an instance, the description holds the
\* instance under the collector's tag, holds no attribute name or alias of
\* the instance's footprint, and keeps every other key that does not start
\* with '_' with its value
C15_PickupFrame ==
    (search.op = "pickup" /\ picked.outcome = "returned") =>
        \A i \in picked.new :
            /\ tag \in DOMAIN picked.desc
            /\ picked.desc[tag] = i
            /\ DOMAIN picked.desc \cap allkeys(FP(i.cls)) = {}
            /\ \A x \in DOMAIN search.desc \ (allkeys(FP(i.cls)) \cup HiddenKeys \cup {tag}) :
                   x \in DOMAIN picked.desc /\ picked.desc[x] = search.desc[x]

\* the description of the call in progress without its hidden keys
Shown == [x \in DOMAIN search.desc \ HiddenKeys |-> search.desc[x]]

\* how the resolve of the shown description ends for the classes held
Screened ==
    [cls \in items |-> resolve(cls, Shown, defaults, FALSE, FALSE, ClassAliasOrder(cls))]

\* no class the collector holds matches the description
NoMatch ==
    \A cls \in items :
        ~(Screened[cls].pc = "returned" /\ NoneAttrs(Screened[cls]) = {})

\* the description as a pickup that found nothing leaves it: the hidden keys
\* gone, None under the tag, every other key with its value
Unconsumed ==
    /\ DOMAIN picked.desc = DOMAIN Shown \cup {tag}
    /\ picked.desc[tag] = None
    /\ \A x \in DOMAIN Shown \ {tag} : picked.desc[x] = Shown[x]

Compat(i) ==
    resolve(i.cls, search.desc, defaults, FALSE, FALSE, ClassAliasOrder(i.cls))

\* the instance i declares itself reusable and the description resolves, for
\* every attribute, to the value i stores
Fits(i) ==
    /\ footprint_reusable(i.cls)
    /\ Compat(i).pc = "returned"
    /\ \A a \in AttrNames(FP(i.cls)) : Compat(i).guess[a] = i.attrs[a]

\* the call ended as load ends on the same description
EndedAsLoad ==
    \E o \in load(CS, tag, search.desc, defaults, FreshId(picked.tracked)) :
        /\ o.outcome = picked.outcome
        /\ o.err = picked.err
        /\ o.result = picked.result

\* C17 as stated: default returns a tracked instance only if the instance is
\* reusable and the description resolves to the values it stores; when no
\* tracked instance qualifies, default ends as load does
C17_DefaultReuse ==
    search.op = "default" =>
        /\ (picked.outcome = "returned" /\ picked.result \in picked.tracked) =>
               Fits(picked.result)
        /\ (\A i \in picked.tracked : ~Fits(i)) => EndedAsLoad

\* C17 amended: the same, but when the resolution of the description against
\* the footprint of a reusable tracked instance does not return, default
\* ends as that resolution did, load not being called
C17_DefaultReuseUnlessError ==
    search.op = "default" =>
        /\ (picked.outcome = "returned" /\ picked.result \in picked.tracked) =>
               Fits(picked.result)
        /\ (\A i \in picked.tracked : ~Fits(i)) =>
               IF \A i \in picked.tracked :
                      footprint_reusable(i.cls) => Compat(i).pc = "returned"
               THEN EndedAsLoad
               ELSE \E i \in picked.tracked :
                        /\ footprint_reusable(i.cls)
                        /\ Compat(i).pc = picked.outcome
                        /\ Compat(i).err = picked.err
                        /\ picked.outcome # "returned"

\* default handed back a tracked instance although another tracked instance
\* did not qualify
C17_Witness ==
    /\ search.op = "default"
    /\ picked.outcome = "returned"
    /\ picked.result \in picked.tracked
    /\ Fits(picked.result)
    /\ \E i \in picked.tracked : ~Fits(i)
    /\ DOMAIN search.desc # {}

\* ------------------------------------------------ properties of checkonly

\* the comparison values a rule declares
Declared(rule) == {rule.v.items[i] : i \in 1..Len(rule.v.items)}

\* the rule passes as the claim has it: the actual value exists and one of
\* the declared comparison values suits it
RulePasses(rule, rd, params) ==
    /\ actualvalue(rule.k, rd, params) # ONone
    /\ \E c \in Declared(rule) :
           LET x == actualvalue(rule.k, rd, params)
           IN  IF only_after(rule.k) THEN py_ge(x, c) = "T"
               ELSE IF only_before(rule.k) THEN py_lt(x, c) = "T"
               ELSE IF c.t = "re" THEN py_match(c, x) = "T"
               ELSE x = c

\* C18: checkonly keeps the resolved candidate if and only if every rule
\* passes, a rule passing when the actual value exists and suits at least
\* one of the rule's comparison values
C18_KeptIffAllRulesPass ==
    only.pc \in {"kept", "notfound", "notmatch", "raised"} =>
        (only.pc = "kept" <=>
            \A i \in 1..Len(only.rules) : RulePasses(only.rules[i], only.rd, only.params))

\* ------------------------------------ properties of classes and instances

\* C21: the statement of a class that is explicit, not abstract and whose
\* footprint has no mandatory attribute raises the invalid-definition error
\* and defines no class, and the construction of an instance of an abstract
\* class raises it and builds no instance; so no defined class is of that
\* kind and no live instance is of an abstract class
C21_InvalidDefinition ==
    /\ (did.op = "define" /\ did.explicit /\ ~did.abstract
            /\ mandatory(FP(did.cls)) = {})
           => did.err = "invalid" /\ did.cls \notin DOMAIN defined
    /\ (did.op = "new" /\ did.abstract) => did.err = "invalid" /\ did.id = 0
    /\ \A cls \in DOMAIN defined :
           defined[cls].explicit /\ ~defined[cls].abstract => mandatory(FP(cls)) # {}
    /\ \A i \in live : i.cls \in DOMAIN defined => ~defined[i.cls].abstract

\* an explicit concrete class without mandatory attribute was refused, while
\* an abstract class is defined
C21_Witness ==
    /\ did.op = "define" /\ did.explicit /\ ~did.abstract
    /\ mandatory(FP(did.cls)) = {}
    /\ did.err = "invalid"
    /\ \E cls \in DOMAIN defined : defined[cls].abstract

\* C24 as stated: every live instance of a class a collector holds is among
\* the instances that collector tracks
C24_LiveIsTracked ==
    \A i \in live : \A tg \in Tags :
        i.cls \in colls[tg].items => i.id \in colls[tg].instances

\* C24 amended: every live instance is tracked by each collector its class
\* statement has subscribed to the instances of the class (a collector named
\* in _collector whose register attribute was on at that time), whether the
\* instance was built directly, loaded or copied; and a collector tracks
\* live instances only
C24_LiveIsTrackedWhereSubscribed ==
    /\ \A i \in live : \A tg \in board[i.cls] : i.id \in colls[tg].instances
    /\ \A tg \in Tags : colls[tg].instances \subseteq {i.id : i \in live}

\* a copy is tracked by the two collectors of its class
C24_Witness ==
    /\ did.op = "copy"
    /\ board[did.cls] = Tags
    /\ \A tg \in Tags : did.id \in colls[tg].instances

\* ------------------------------------------- properties of the attributes

\* the instance the last operation was about
Target == CHOOSE i \in live : i.id = did.id

\* what the resolution of the instance's attributes, with v for a, gives
Resolution(attrs, cls, a, v) ==
    resolve(cls, Extend(attrs, a, v), defaults, TRUE, FALSE, ClassAliasOrder(cls))

\* C22: a write to a read-write attribute is accepted exactly when the
\* resolution of the same value for that attribute returns, and it stores the
\* value the resolution gives; a rejected write leaves the attributes as they
\* were
C22_WriteAsResolution ==
    (did.op = "set" /\ footprint_access(did.cls, did.attr) # "rxx") =>
        \E r \in {Resolution(did.before, did.cls, did.attr, did.value)} :
            /\ (did.err = "") <=> (r.pc = "returned")
            /\ did.err = "" => Target.attrs[did.attr] = r.guess[did.attr]
            /\ did.err # "" => Target.attrs = did.before

\* C23: whatever was written or deleted on a live instance, a read-only
\* attribute reads as it did when the instance was built; a write or a delete
\* of a read-only attribute raises an attribute error, and so does the delete
\* of a read-write attribute without delete, which keeps its value
C23_ReadOnlyKept ==
    /\ \A i \in live : \A a \in AttrNames(FP(i.cls)) :
           footprint_access(i.cls, a) = "rxx" =>
               \E now \in {descr_get(i.cls, i.attrs, a, <<i.cls, a>> \in noattr)} :
                   /\ now.err = ""
                   /\ now.value = descr_get(i.cls, born[i.id], a, FALSE).value
    /\ (did.op \in {"set", "delete"} /\ footprint_access(did.cls, did.attr) = "rxx")
           => did.err = "attribute" /\ Target.attrs = did.before
    /\ (did.op = "delete" /\ footprint_access(did.cls, did.attr) = "rwx")
           => did.err = "attribute" /\ Target.attrs = did.before

\* the delete of a read-write attribute without delete was refused on an
\* instance whose attributes are no longer those it was built with
C23_Witness ==
    /\ did.op = "delete"
    /\ footprint_access(did.cls, did.attr) = "rwx"
    /\ did.err = "attribute"
    /\ Target.attrs # born[did.id]

\* ------------------------------------------- properties of the hierarchy

\* the places of a footprint where a value may sit
Paths ==
    {<<"info">>, <<"priority", "level">>, <<"only", "x">>}
        \cup {<<"attr", a, key>> : a \in {"x", "y"},
                                   key \in {"default", "optional", "values", "access"}}
        \cup {<<"attr", "x", "remap", r>> : r \in {"r", "s"}}

\* the dict d holds something at the path p, and what it holds
RECURSIVE Has(_, _)
Has(d, p) ==
    /\ p[1] \in DOMAIN d
    /\ Len(p) = 1 \/ (d[p[1]].isdict /\ Has(d[p[1]].m, Tail(p)))

RECURSIVE At(_, _)
At(d, p) == IF Len(p) = 1 THEN d[p[1]] ELSE At(d[p[1]].m, Tail(p))

\* what the footprint of the class c is merged from, the one that overrides
\* first: its own fragment, then the footprints of its bases in the method
\* resolution order
Sources(c) ==
    <<heritage[c].own>> \o
        [i \in 1..(Len(heritage[c].mro) - 1) |-> heritage[heritage[c].mro[i + 1]].fp]

\* C25: the footprint of a class is the merge of its own fragment and of the
\* footprints of its bases, key by key inside 'attr' and 'only': at every
\* place, it holds what the class's own fragment gives there, or else what
\* the first base in the method resolution order that has the place gives
C25_MergeOfBases ==
    \A c \in 1..Len(heritage) : \A p \in Paths :
        LET src == Sources(c)
            having == {i \in 1..Len(src) : Has(src[i], p)}
        IN having # {} =>
               LET i == CHOOSE x \in having : \A y \in having : x <= y
               IN /\ Has(heritage[c].fp, p)
                  /\ At(heritage[c].fp, p) = At(src[i], p)

\* ------------------------------------------- properties of the priority set

\* NONE < DEFAULT < TOOLBOX < DEBUG
Predefined ==
    <<<<"N", "O", "N", "E">>, <<"D", "E", "F", "A", "U", "L", "T">>,
      <<"T", "O", "O", "L", "B", "O", "X">>, <<"D", "E", "B", "U", "G">>>>

\* the comparisons == and > of the levels at the places i and j, the second
\* one given as a level of the set or by the name n, go by the places
ComparedByRank(i, j, n) ==
    \A op \in {"eq", "gt"} :
        LET byrank == Ranked(ThisSet, "", IF op = "eq" THEN i = j ELSE i > j)
        IN /\ level_compare(ThisSet, levels[i], levels[j], TRUE, op) = byrank
           /\ level_compare(ThisSet, levels[i], n, FALSE, op) = byrank

\* C26: whatever was done to the priority set, its names are pairwise
\* distinct, the rank of a level is its place in the list, counted from 0,
\* the comparison of two levels of the set, or of a level and the name of
\* one, here in small letters, is the comparison of their ranks; and the
\* predefined set starts as NONE < DEFAULT < TOOLBOX < DEBUG
C26_RanksAndComparisons ==
    /\ \A i, j \in 1..Len(levels) : levels[i] = levels[j] => i = j
    /\ \A i \in 1..Len(levels) :
           pset_levelindex(ThisSet, levels[i]) = Ranked(ThisSet, "", i - 1)
    /\ \A i, j \in 1..Len(levels) :
           ComparedByRank(i, j, lower(levels[j]))
    /\ pdid.op = "none" => levels = Predefined

\* a level was moved in a set that has a frozen list beside the first one
C26_Witness ==
    /\ pdid.op = "rerank" /\ pdid.err = ""
    /\ levels # Predefined
    /\ Len(levels) >= 3
    /\ <<"t">> \in DOMAIN frozen

\* every level of the set can be compared with every other
LevelsUsable ==
    \A i, j \in 1..Len(levels) :
        /\ levels[i] \in pdict
        /\ level_compare(ThisSet, levels[i], lower(levels[j]), FALSE, "gt")
               = Ranked(ThisSet, "", i > j)

\* C27: restore under a name that freeze was given puts back the list as it
\* was at the last such freeze, and reset the list at construction, every
\* level of it usable in comparisons; freeze under 'default', in any case of
\* letters, is refused and the list kept under it stays the one at
\* construction
C27_RestoreAsFrozen ==
    /\ (pdid.op = "restore" /\ lower(pdid.tag) \in DOMAIN pdid.taken) =>
           /\ pdid.err = ""
           /\ levels = pdid.taken[lower(pdid.tag)]
           /\ LevelsUsable
    /\ pdid.op = "reset" => pdid.err = "" /\ levels = Predefined /\ LevelsUsable
    /\ (pdid.op = "freeze" /\ lower(pdid.tag) = tag_frozen) => pdid.err = "value"
    /\ frozen[tag_frozen] = Predefined

\* a restore has put back a level that had been removed since the freeze
C27_Witness ==
    /\ pdid.op = "restore" /\ pdid.err = ""
    /\ \E i \in 1..Len(levels) : levels[i] \in pdid.fresh
    /\ levels = pdid.taken[lower(pdid.tag)]
    /\ levels # Predefined

\* ------------------------------------------- properties of the work queue

\* the place of the attribute a in the declaration of the footprint
DeclRank(fp, a) == CHOOSE i \in 1..Len(fp.keys) : fp.keys[i] = a

\* a goes before b in the order of the claim: a fast key before any other
\* attribute, then a mandatory attribute before an optional one, then the
\* one declared first
GoesBefore(fp, a, b) ==
    LET fa == a \in FastKeys
        fb == b \in FastKeys
        ma == ~fp.attr[a].optional
        mb == ~fp.attr[b].optional
    IN  \/ fa /\ ~fb
        \/ fa = fb /\ ma /\ ~mb
        \/ fa = fb /\ ma = mb /\ DeclRank(fp, a) < DeclRank(fp, b)

\* C29: the queue resolve starts from holds the attributes in the order of
\* the claim: fast keys first, then mandatory before optional, then in the
\* order of declaration
C29_ProcessingOrder ==
    (pc = "loop" /\ nbpass = 0) =>
        \A i, j \in 1..Len(todok) :
            i < j => ~GoesBefore(FP(fpid), todok[j], todok[i])

\* the attributes the loop has nulled where the fast exit applies: a fast
\* key, or any attribute in fast mode
FastNulled == {a \in attr_seen : guess[a] = None /\ (opt_fast \/ a \in FastKeys)}

\* the attributes still on the queue
Queued == {todok[i] : i \in 1..Len(todok)}

\* C30 as stated: once a fast key, or any attribute in fast mode, is nulled,
\* no other attribute is processed: the call is at its closing pass or over,
\* the seen set holds none of the attributes left on the queue, and every
\* attribute that was not processed has its first-guess value
C30_FastExitStops ==
    /\ FastNulled # {} => pc \in {"final", "returned", "raised"}
    /\ (Ended /\ FastNulled # {}) =>
           /\ attr_seen \cap Queued = {}
           /\ \A a \in AttrNames(FP(fpid)) \ attr_seen : guess[a] = FirstGuess[a]

\* C30 amended: the same, the attributes that were not processed having
\* their first-guess value or, where that value is the string 'None', the
\* None the closing pass puts in its place
C30_FastExitStopsButClosing ==
    /\ FastNulled # {} => pc \in {"final", "returned", "raised"}
    /\ (Ended /\ FastNulled # {}) =>
           /\ attr_seen \cap Queued = {}
           /\ \A a \in AttrNames(FP(fpid)) \ attr_seen :
                  \/ guess[a] = FirstGuess[a]
                  \/ FirstGuess[a] = Word("None") /\ guess[a] = None

\* a call that returned after the fast exit with attributes left on the queue
C30_Witness ==
    /\ pc = "returned"
    /\ FastNulled # {}
    /\ Queued # {}
    /\ \E a \in Queued : guess[a] = FirstGuess[a] /\ guess[a] # None


\* ------------------------------------------- properties of the candidates

\* the value v of a candidate passes the type, values and outcast checks of
\* the attribute defined by kdef
Checked(kdef, v) ==
    /\ IsInstance(v, kdef.type)
    /\ kdef.values # {} => in_values(v, kdef.values)
    /\ ~in_values(v, kdef.outcast)

\* the values the remap table of kdef gives
RemapTargets(kdef) == {p[2] : p \in kdef.remap}

\* the strings the type conversion of kdef makes in the model
ConvTargets(kdef) ==
    IF kdef.type = "str" THEN {Reclass("str", VInt(i)) : i \in 0..MaxInt} ELSE {}

\* C28 as stated: every candidate find_all returns, and every truthy result
\* of footprint_couldbe, gives each attribute of the class a value that is the
\* unknown sentinel or an instance of the declared type, one of 'values' when
\* that set is not empty and none of 'outcast'; no value is None and no string
\* value still holds a placeholder
C28_CandidateValues ==
    \A c \in search.found : \A a \in AttrNames(FP(c.cls)) :
        /\ a \in DOMAIN c.guess
        /\ c.guess[a] = UNKNOWN \/ Checked(FP(c.cls).attr[a], c.guess[a])
        /\ c.guess[a] # None
        /\ ~HasRepl(c.guess[a])

\* C28 amended: the same, but a string value may hold a placeholder that the
\* remap table or the type conversion, which act after the substitution, put
\* there
C28_CandidateValuesButRemap ==
    \A c \in search.found : \A a \in AttrNames(FP(c.cls)) :
        /\ a \in DOMAIN c.guess
        /\ c.guess[a] = UNKNOWN \/ Checked(FP(c.cls).attr[a], c.guess[a])
        /\ c.guess[a] # None
        /\ HasRepl(c.guess[a]) =>
               c.guess[a] \in RemapTargets(FP(c.cls).attr[a])
                                 \cup ConvTargets(FP(c.cls).attr[a])

\* find_all returns the class "two" with someint converted from '1' and
\* checked against its values and outcast, and the class "echo" with the
\* kind its remap table gives
C28_Witness ==
    /\ Searched("find_all")
    /\ "someint" \in DOMAIN search.desc
    /\ search.desc["someint"] = Word("1")
    /\ \E c \in search.found :
           /\ c.cls = "two"
           /\ c.guess["someint"] = VInt(1)
           /\ c.guess["kind"] = Word("foo")
    /\ \E c \in search.found : c.cls = "echo" /\ HasRepl(c.guess["kind"])

\* ------------------------------------------- properties of the accessors

\* C31: once a read-write-with-delete attribute was deleted on an instance,
\* only the value of that instance is gone: every other instance of the class
\* still reads the attribute and accepts a write to it, and the instance it
\* was deleted from accepts a write again
C31_DeleteIsLocal ==
    (did.op = "delete" /\ did.err = "") =>
        \A i \in live :
            i.cls = did.cls =>
                /\ i.id # did.id =>
                       \E now \in {descr_get(i.cls, i.attrs, did.attr,
                                             <<i.cls, did.attr>> \in noattr)} :
                           /\ now.err = ""
                           /\ did.attr \in DOMAIN i.attrs
                           /\ now.value = descr_get(i.cls, i.attrs, did.attr, FALSE).value
                /\ \E v \in WriteVals :
                       descr_set(i.cls, i.attrs, did.attr, v,
                                 <<i.cls, did.attr>> \in noattr).err = ""

\* ---------------------------------- properties of the class statements

\* C32: a class whose statement failed with the invalid-definition error is
\* held by no collector, as a class or as an abstract class, no collector is
\* on its observer board, and no search returns it
C32_FailedLeavesNoTrace ==
    \A cls \in DefClasses \ DOMAIN defined :
        /\ \A tg \in Tags : cls \notin colls[tg].items \cup colls[tg].abstract
        /\ board[cls] = {}
        /\ cls \notin found_classes(search.found)

\* ------------------------------------------ properties of the fast track

\* the attribute a of class cls is mandatory with a list of values
Restricted(cls, a) ==
    a \in mandatory(FP(cls)) /\ FP(cls).attr[a].values # {}

\* the classes the index of attribute a holds under some value
Indexed(a) == UNION {fasttrack_index[a][v] : v \in DOMAIN fasttrack_index[a]}

\* C33: whatever classes were added and discarded and whatever fast track was
\* asked for, each active fast-track attribute has every registered class
\* either in its trap set (the attribute is optional, missing or without
\* values in the class) or in the index entry of each value the class allows,
\* and a class that is not registered is in no index entry and in no trap set
C33_IndexCoversItems ==
    /\ DOMAIN fasttrack_index = fasttrack_attr
    /\ DOMAIN fasttrack_trap = fasttrack_attr
    /\ \A a \in fasttrack_attr :
           /\ \A cls \in items :
                  IF Restricted(cls, a)
                  THEN /\ cls \notin fasttrack_trap[a]
                       /\ \A v \in FP(cls).attr[a].values :
                              /\ v \in DOMAIN fasttrack_index[a]
                              /\ cls \in fasttrack_index[a][v]
                  ELSE cls \in fasttrack_trap[a]
           /\ Indexed(a) \cup fasttrack_trap[a] \subseteq items

\* a fast-track attribute has a registered class in its trap set, another one
\* in its index, and an index entry that the discard of a class has emptied
C33_Witness ==
    \E a \in fasttrack_attr :
        /\ items \cap fasttrack_trap[a] # {}
        /\ items \cap Indexed(a) # {}
        /\ \E v \in DOMAIN fasttrack_index[a] : fasttrack_index[a][v] = {}

\* ------------------------------------------ properties of the first guess

\* the values the description gives attribute a under its own name and under
\* its aliases, a None given for an optional attribute counting as absent
Given(a, keys) ==
    {desc[key] : key \in {x \in keys \cap DOMAIN desc :
                             ~(FP(fpid).attr[a].optional /\ desc[x] = None)}}

\* the first guesses the precedence allows for attribute a
Precedence(a) ==
    LET kdef == FP(fpid).attr[a]
    IN  IF Given(a, {a}) # {} THEN Given(a, {a})
        ELSE IF Given(a, kdef.alias) # {} THEN Given(a, kdef.alias)
        ELSE IF a \in DOMAIN defaults THEN {defaults[a]}
        ELSE IF kdef.default # None THEN {kdef.default}
        ELSE IF kdef.optional THEN {UNKNOWN}
        ELSE {None}

\* resolve has just made its first guess
JustGuessed == pc = "loop" /\ nbpass = 0

\* C34: the first guess of each attribute is the value the description gives
\* under the attribute's name (a None given for an optional attribute counting
\* as absent), else the one it gives under an alias, else the one of the
\* defaults table, else the declared default, else the unknown sentinel for an
\* optional attribute and None for a mandatory one
C34_FirstGuessPrecedence ==
    JustGuessed => \A a \in AttrNames(FP(fpid)) : guess[a] \in Precedence(a)

\* the same precedence, but for a mandatory attribute whose turn it is to take
\* a declared default and whose first guess is None
PrecedenceButMandatoryDefault ==
    JustGuessed =>
        \A a \in AttrNames(FP(fpid)) :
            \/ guess[a] \in Precedence(a)
            \/ /\ ~FP(fpid).attr[a].optional
               /\ Precedence(a) = {FP(fpid).attr[a].default}
               /\ guess[a] = None

\* ------------------------------------------- properties of the method chains

\* the body of "while changed" is about to substitute a placeholder whose key
\* is at hand, in the guess table or in extras, and a callable of its chain
\* raises
CallableRaises ==
    /\ pc = "turn"
    /\ HasRepl(guessk)
    /\ LET tok == guessk.s[FirstRepl(guessk.s)]
           inqueue == \E i \in 1..Len(todok) : todok[i] = tok.x
       IN  /\ tok.m # <<>>
           /\ \/ tok.x \in DOMAIN guess /\ ~inqueue
                   /\ replm_walk(guess[tok.x], tok.m, guess, TRUE).out = "skip"
              \/ tok.x \notin DOMAIN guess /\ tok.x \in DOMAIN extras
                   /\ replm_walk(extras[tok.x], tok.m, guess, TRUE).out = "skip"

\* C35: when a callable of a placeholder's ':' chain raises, the substitution
\* is skipped (the working value stays as it is and the exception does not
\* leave resolve) and the attribute then goes back to the queue, whether the
\* key of the placeholder is in the guess table or in extras
C35_RaisingCallableSkipped ==
    /\ [][CallableRaises =>
              /\ pc' = "repl" /\ err' = ""
              /\ guessk' = guessk /\ ~changed']_vars
    /\ [][(pc = "repl" /\ ~changed /\ HasRepl(guessk)) =>
              (pc' = "loop" /\ todok' = Append(todok, k))]_vars

\* the same for a key of extras only
RaisingCallableOfExtrasSkipped ==
    [][(CallableRaises /\ guessk.s[FirstRepl(guessk.s)].x \notin DOMAIN guess) =>
           /\ pc' = "repl" /\ err' = ""
           /\ guessk' = guessk /\ ~changed']_vars

\* a callable of a chain has raised for a key of the guess table
C35_RaisedInGuess ==
    /\ CallableRaises
    /\ guessk.s[FirstRepl(guessk.s)].x \in DOMAIN guess

\* ------------------------------------------- properties of the diagnostics

\* the reasons recorded for the attribute a among the entries es
RECURSIVE WhysOf(_, _)
WhysOf(a, es) ==
    IF es = <<>> THEN <<>>
    ELSE (IF Head(es).name = a THEN <<Head(es).why>> ELSE <<>>) \o WhysOf(a, Tail(es))

\* the closing pass of a resolve that reports is about to run and return
Closing == AtFinal(RS) /\ Len(report.cur) = 2

\* what the step has added to the class entry the log is at
JustAdded ==
    SubSeq(AtClass(report').items, Len(AtClass(report).items) + 1,
           Len(AtClass(report').items))

\* C36: an attribute that ends as the string 'None' is returned as None and
\* recorded with the reason "Invalid value", and not with the "Missing value"
\* recorded for an attribute that had no value at all
C36_NullStringIsInvalid ==
    [][(Closing /\ pc' = "returned") =>
           \A a \in AttrNames(FP(fpid)) :
               /\ guess[a] = Word("None") =>
                      /\ guess'[a] = None
                      /\ WhysOf(a, JustAdded) = <<REPORT_WHY_INVALID>>
               /\ (guess[a] = None /\ a \notin diags) =>
                      WhysOf(a, JustAdded) = <<REPORT_WHY_MISSING>>]_vars

\* the string 'None' is turned into None and recorded as invalid first, and
\* an attribute without a value is recorded as missing
NullStringIsInvalidFirst ==
    [][(Closing /\ pc' = "returned") =>
           \A a \in AttrNames(FP(fpid)) :
               /\ guess[a] = Word("None") =>
                      /\ guess'[a] = None
                      /\ WhysOf(a, JustAdded) = <<REPORT_WHY_INVALID, REPORT_WHY_MISSING>>
               /\ (guess[a] = None /\ a \notin diags) =>
                      WhysOf(a, JustAdded) = <<REPORT_WHY_MISSING>>]_vars

\* C37: when the resolve of a candidate returns, each attribute that is None
\* has exactly one entry in the candidate's report and each attribute that
\* has a value has none
C37_OneEntryPerFailedAttribute ==
    [][(Closing /\ pc' = "returned") =>
           \A a \in AttrNames(FP(fpid)) :
               Len(WhysOf(a, AtClass(report').items)) =
                   IF guess'[a] = None THEN 1 ELSE 0]_vars

\* each attribute that is None has an entry or two, and each attribute that
\* has a value has none
EntriesOnlyForFailedAttributes ==
    [][(Closing /\ pc' = "returned") =>
           \A a \in AttrNames(FP(fpid)) :
               Len(WhysOf(a, AtClass(report').items)) \in
                   IF guess'[a] = None THEN {1, 2} ELSE {0}]_vars

\* a collector entry, a class entry are open
CollectorOpen == report.log # <<>>
CandidateOpen == CollectorOpen /\ report.log[Len(report.log)].items # <<>>

\* the log but its last collector entry, and that entry but its last class
FormerCollectors(rep) == SubSeq(rep.log, 1, Len(rep.log) - 1)
LastCollector(rep) == rep.log[Len(rep.log)]
FormerCandidates(rep) == SubSeq(LastCollector(rep).items, 1, Len(LastCollector(rep).items) - 1)
LastCandidate(rep) == LastCollector(rep).items[Len(LastCollector(rep).items)]

IsPrefix(s, t) == Len(s) <= Len(t) /\ SubSeq(t, 1, Len(s)) = s

\* C39: the log takes a class entry only when a collector entry is open and
\* an attribute entry only when a class entry is open, and raises the bad log
\* entry error otherwise, leaving its entries as they are; a class entry goes
\* at the end of the most recent collector entry, an attribute entry at the
\* end of the most recent class entry, and nothing else changes
C39_LogOrder ==
    [][report' # report =>
           /\ report'.last.op = "collector" =>
                  /\ ~report'.last.raised
                  /\ report'.log = Append(report.log, LogEntry(tag))
           /\ report'.last.op = "candidate" =>
                  /\ report'.last.raised <=> ~CollectorOpen
                  /\ report'.last.raised => report'.log = report.log
                  /\ ~report'.last.raised =>
                         /\ FormerCollectors(report') = FormerCollectors(report)
                         /\ LastCollector(report').name = LastCollector(report).name
                         /\ FormerCandidates(report') = LastCollector(report).items
                         /\ LastCandidate(report').items = <<>>
           /\ report'.last.op = "attribute" =>
                  /\ report'.last.raised <=> ~CandidateOpen
                  /\ report'.last.raised => report'.log = report.log
                  /\ ~report'.last.raised =>
                         /\ FormerCollectors(report') = FormerCollectors(report)
                         /\ LastCollector(report').name = LastCollector(report).name
                         /\ FormerCandidates(report') = FormerCandidates(report)
                         /\ LastCandidate(report').name = LastCandidate(report).name
                         /\ IsPrefix(LastCandidate(report).items, LastCandidate(report').items)
                         /\ Len(LastCandidate(report').items) > Len(LastCandidate(report).items)
           /\ report'.last.op = "other" =>
                  report'.last.raised /\ report'.log = report.log]_vars

\* a second collector entry holds a class entry with an attribute entry,
\* after a first collector entry with a class entry of its own
C39_Witness ==
    /\ Len(report.log) = 2
    /\ report.log[1].items # <<>>
    /\ report.log[2].items # <<>>
    /\ report.log[2].items[1].items # <<>>
    /\ report.last = Added("attribute")

\* ------------------------------------------- properties of a refused insert

\* C38: an insert (set_after and set_before are inserts on the predefined set)
\* that raises because its reference level is not in the set leaves the
\* ordered list of levels as it was: a level named in the call is not lost
C38_RefusedInsertKeepsLevels ==
    [][(pdid'.op = "insert" /\ pdid'.err # "") => levels' = levels]_vars

\* a refused insert takes nothing from the list but the level it was to place
RefusedInsertTakesItsLevel ==
    [][(pdid'.op = "insert" /\ pdid'.err # "") =>
           levels' = IF InList(levels, upper(pdid'.tag))
                     THEN list_remove(levels, upper(pdid'.tag)) ELSE levels]_vars

====
